---- MODULE Spec2Model ----
(***************************************************************************)
(* Building planner: the drawing canvas (DrawingCanvas.vue) and the host   *)
(* application (App.vue) that owns the shape collection, the selection,    *)
(* the active tool and the active colours.                                 *)
(*                                                                         *)
(* One action per DOM event.  A pointer event on the canvas runs its       *)
(* handler twice: once through the template binding (@mousedown ...) and   *)
(* once through the listener added in onMounted.  The host's handlers run  *)
(* synchronously inside emit(); the canvas sees a new selectedShape prop   *)
(* only after the host has re-rendered, which happens between the two      *)
(* listener runs when the browser dispatches the event and after both when *)
(* a script dispatches it.                                                 *)
(***************************************************************************)
EXTENDS Integers, Sequences, FiniteSets, TLC

VARIABLES
    activeTool,       \* App: activeTool
    shapes,           \* App: shapes (the collection, in order)
    selectedShape,    \* App: selectedShape (the object handed over by shape-selected)
    activeColor,      \* App: activeColor
    activeFillColor,  \* App: activeFillColor
    showAnnotations,  \* App: showAnnotations
    isDrawing,        \* canvas: isDrawing
    startPoint,       \* canvas: startPoint
    endPoint,         \* canvas: endPoint
    dragOffset,       \* canvas: dragOffset
    resizing,         \* canvas: resizing
    resizeHandle,     \* canvas: resizeHandle
    nextId,           \* the next identifier uuidv4() hands out
    emitted,          \* the events the last DOM event made the canvas emit
    gesture,          \* the pointer gesture under way, as the browser delivers
                      \* it: the tool and position of its mousedown and the
                      \* pointer's last position; NoGesture after mouseup or
                      \* mouseleave
    nEvents,          \* DOM events delivered so far
    query,            \* geometry: the point and the shape a predicate is asked about
    result,           \* geometry: what the predicate returned
    store,            \* IndexedDB: the object store 'drawings', id -> record
    txs,              \* IndexedDB: the requests of the transactions on the
                      \* store that have not run yet, in the order of creation
    uuids,            \* the identifiers uuidv4() has handed out for drawings
    manager,          \* DrawingManager: its refs, and what its saveDrawing
                      \* returned last
    reply,            \* DatabaseService: what the last call that resolved returned
    nOps              \* DatabaseService: steps taken so far

vars == <<activeTool, shapes, selectedShape, activeColor, activeFillColor,
          showAnnotations,
          isDrawing, startPoint, endPoint, dragOffset, resizing, resizeHandle,
          nextId, emitted, gesture, nEvents,
          query, result, store, txs, uuids, manager, reply, nOps>>

\* the state of the canvas and of the host
canvasVars ==
    <<activeTool, shapes, selectedShape, activeColor, activeFillColor,
      showAnnotations, isDrawing, startPoint, endPoint, dragOffset, resizing,
      resizeHandle, nextId, emitted, gesture, nEvents>>

\* what the events of the canvas and of the toolbar leave alone
offCanvas == <<query, result, store, txs, uuids, manager, reply, nOps>>

----------------------------------------------------------------------------
(* Bounds of the model *)

MaxEvents == 10
MaxShapes == 2
MaxCoord == 6
MaxPending == 2
MaxUuids == 2
MaxOps == 10

(* Pointer positions delivered to the canvas *)
Pt(px, py) == [x |-> px, y |-> py]

Points ==
    { Pt(0, 0), Pt(10, 10), Pt(12, 11), Pt(60, 40) }

Tools == {"select", "line", "rectangle", "circle"}

----------------------------------------------------------------------------
(* Values *)

\* null for selectedShape and for "no shape found"
NoShape ==
    [id |-> 0, type |-> "null", x |-> 0, y |-> 0, width |-> 0, height |-> 0,
     startX |-> 0, startY |-> 0, endX |-> 0, endY |-> 0,
     color |-> "", fillColor |-> ""]

\* no question asked of the geometry, and no answer
NoQuery == [p |-> Pt(0, 0), shape |-> NoShape]
NoResult == [op |-> "none"]

\* undefined: what a get returns when no record matches
NoRecord == [id |-> 0]

\* no call of the DatabaseService has resolved
NoReply == [op |-> "none"]

\* DrawingManager as mounted; `returned` is what its saveDrawing returned
ClosedManager ==
    [showModal |-> FALSE, drawings |-> <<>>, currentAction |-> "load",
     drawingName |-> <<>>, error |-> "", loadingData |-> FALSE,
     returned |-> "none"]

\* no mouse button is held on the canvas
NoGesture == [tool |-> "", start |-> Pt(0, 0), last |-> Pt(0, 0)]

Min2(a, b) == IF a < b THEN a ELSE b
Max2(a, b) == IF a > b THEN a ELSE b
Abs(a) == IF a < 0 THEN -a ELSE a

\* The component and host state a handler reads and writes, as one record;
\* propSelected is the selectedShape prop as the canvas currently sees it.
St ==
    [activeTool |-> activeTool, shapes |-> shapes, selectedShape |-> selectedShape,
     propSelected |-> selectedShape,
     activeColor |-> activeColor, activeFillColor |-> activeFillColor,
     isDrawing |-> isDrawing, startPoint |-> startPoint, endPoint |-> endPoint,
     dragOffset |-> dragOffset, resizing |-> resizing, resizeHandle |-> resizeHandle,
     nextId |-> nextId, emitted |-> <<>>]

\* The host re-renders: the canvas's props take the host's values.
Flush(s) == [s EXCEPT !.propSelected = s.selectedShape]

----------------------------------------------------------------------------
(* Geometry (DrawingCanvas.vue).  Distances are kept as exact squares:      *)
(* d = sqrt(num / den), so d < 5 is num < 25 * den.                         *)

\* distance(p1, p2), squared
distanceSq(p1, p2) ==
    (p2.x - p1.x) * (p2.x - p1.x) + (p2.y - p1.y) * (p2.y - p1.y)

\* pointToLineDistance that takes a segment without length for distance 0
pointToLineDistanceSqFlat(point, lineStart, lineEnd) ==
    LET A == point.x - lineStart.x
        B == point.y - lineStart.y
        C == lineEnd.x - lineStart.x
        D == lineEnd.y - lineStart.y
        dot == A * C + B * D
        lenSq == C * C + D * D
    IN  IF lenSq = 0 THEN [num |-> 0, den |-> 1]
        ELSE IF dot < 0
        THEN [num |-> distanceSq(point, lineStart), den |-> 1]
        ELSE IF dot > lenSq
        THEN [num |-> distanceSq(point, lineEnd), den |-> 1]
        ELSE [num |-> (A * lenSq - dot * C) * (A * lenSq - dot * C)
                      + (B * lenSq - dot * D) * (B * lenSq - dot * D),
              den |-> lenSq * lenSq]

\* pointToLineDistance(point, lineStart, lineEnd), squared, as num / den.
\* param = -1 unless lenSq # 0; param = dot / lenSq otherwise.
pointToLineDistanceSq(point, lineStart, lineEnd) ==
    LET A == point.x - lineStart.x
        B == point.y - lineStart.y
        C == lineEnd.x - lineStart.x
        D == lineEnd.y - lineStart.y
        dot == A * C + B * D
        lenSq == C * C + D * D
        paramNeg == IF lenSq # 0 THEN dot < 0 ELSE TRUE       \* param < 0
        paramGt1 == IF lenSq # 0 THEN dot > lenSq ELSE FALSE  \* param > 1
    IN  IF paramNeg
        THEN [num |-> distanceSq(point, lineStart), den |-> 1]
        ELSE IF paramGt1
        THEN [num |-> distanceSq(point, lineEnd), den |-> 1]
        ELSE \* xx = lineStart.x + param * C, yy = lineStart.y + param * D
             [num |-> (A * lenSq - dot * C) * (A * lenSq - dot * C)
                      + (B * lenSq - dot * D) * (B * lenSq - dot * D),
              den |-> lenSq * lenSq]

\* the selection threshold of a line: lineDistance < 5
LineHitTolerance == 5

\* isPointInShape with the line's threshold included: lineDistance <= 5
isPointInShapeWithin(x, y, shape) ==
    CASE shape.type = "rectangle" ->
            /\ x >= shape.x /\ x <= shape.x + shape.width
            /\ y >= shape.y /\ y <= shape.y + shape.height
      [] shape.type = "circle" ->
            LET dx2 == 2 * x - (2 * shape.x + shape.width)
                dy2 == 2 * y - (2 * shape.y + shape.height)
                diam == Max2(shape.width, shape.height)
            IN  diam >= 0 /\ dx2 * dx2 + dy2 * dy2 <= diam * diam
      [] shape.type = "line" ->
            LET d == pointToLineDistanceSq(
                        Pt(x, y), Pt(shape.startX, shape.startY),
                        Pt(shape.endX, shape.endY))
            IN  d.num <= LineHitTolerance * LineHitTolerance * d.den
      [] OTHER -> FALSE

\* isPointInShape(x, y, shape)
isPointInShape(x, y, shape) ==
    CASE shape.type = "rectangle" ->
            /\ x >= shape.x /\ x <= shape.x + shape.width
            /\ y >= shape.y /\ y <= shape.y + shape.height
      [] shape.type = "circle" ->
            \* distance((x, y), centre) <= max(width, height) / 2, doubled
            LET dx2 == 2 * x - (2 * shape.x + shape.width)
                dy2 == 2 * y - (2 * shape.y + shape.height)
                diam == Max2(shape.width, shape.height)
            IN  diam >= 0 /\ dx2 * dx2 + dy2 * dy2 <= diam * diam
      [] shape.type = "line" ->
            LET d == pointToLineDistanceSq(
                        Pt(x, y), Pt(shape.startX, shape.startY),
                        Pt(shape.endX, shape.endY))
            IN  d.num < LineHitTolerance * LineHitTolerance * d.den
      [] OTHER -> FALSE

\* const handleSize = 10
handleSize == 10

\* the handles of a shape, in the order Object.entries lists them
HandlesOf(shape) ==
    IF shape.type = "line"
    THEN << [name |-> "start", x |-> shape.startX, y |-> shape.startY],
            [name |-> "end", x |-> shape.endX, y |-> shape.endY] >>
    ELSE << [name |-> "top-left", x |-> shape.x, y |-> shape.y],
            [name |-> "top-right", x |-> shape.x + shape.width, y |-> shape.y],
            [name |-> "bottom-left", x |-> shape.x, y |-> shape.y + shape.height],
            [name |-> "bottom-right", x |-> shape.x + shape.width,
                                      y |-> shape.y + shape.height] >>

\* the test of one handle position
HandleHit(x, y, pos) ==
    /\ x >= pos.x - handleSize /\ x <= pos.x + handleSize
    /\ y >= pos.y - handleSize /\ y <= pos.y + handleSize

\* getResizeHandle with the last handle hit winning
getResizeHandleLast(x, y, shape) ==
    LET hs == HandlesOf(shape)
        hit == {i \in 1..Len(hs) : HandleHit(x, y, hs[i])}
    IN  IF hit = {} THEN ""
        ELSE hs[CHOOSE i \in hit : \A j \in hit : i >= j].name

\* getResizeHandle(x, y, shape): the first handle hit, '' when none
getResizeHandle(x, y, shape) ==
    LET hs == HandlesOf(shape)
        hit == {i \in 1..Len(hs) : HandleHit(x, y, hs[i])}
    IN  IF hit = {} THEN ""
        ELSE hs[CHOOSE i \in hit : \A j \in hit : i <= j].name

\* FindShapeAt with the last shape drawn (the topmost) winning
FindShapeAtLast(x, y, coll) ==
    LET hit == {i \in 1..Len(coll) : isPointInShape(x, y, coll[i])}
    IN  IF hit = {} THEN NoShape
        ELSE coll[CHOOSE i \in hit : \A j \in hit : i >= j]

\* props.shapes.find(shape => isPointInShape(x, y, shape)); NoShape when none
FindShapeAt(x, y, coll) ==
    LET hit == {i \in 1..Len(coll) : isPointInShape(x, y, coll[i])}
    IN  IF hit = {} THEN NoShape
        ELSE coll[CHOOSE i \in hit : \A j \in hit : i <= j]

----------------------------------------------------------------------------
(* The host (App.vue): its handlers of the canvas's events *)

\* handleShapeAdded: shapes.value.push(shape)
handleShapeAdded(s, shape) ==
    [s EXCEPT !.shapes = Append(s.shapes, shape)]

\* handleShapeSelected: the selection becomes the object handed over; a
\* shape's colours become the active colours
handleShapeSelected(s, shape) ==
    IF shape # NoShape
    THEN [s EXCEPT !.selectedShape = shape,
                   !.activeColor = IF shape.color # "" THEN shape.color ELSE "#333333",
                   !.activeFillColor = IF shape.fillColor # "" THEN shape.fillColor
                                       ELSE "transparent"]
    ELSE [s EXCEPT !.selectedShape = NoShape]

\* handleShapeUpdated pushing the updated shape instead of replacing the entry
handleShapeUpdatedPush(s, updatedShape) ==
    [s EXCEPT !.shapes = Append(s.shapes, updatedShape)]

\* handleShapeUpdated: the first entry with the id is replaced, if any
handleShapeUpdated(s, updatedShape) ==
    LET same == {i \in 1..Len(s.shapes) : s.shapes[i].id = updatedShape.id}
    IN  IF same = {} THEN s
        ELSE LET index == CHOOSE i \in same : \A j \in same : i <= j
             IN  [s EXCEPT !.shapes[index] = updatedShape]

\* emit(name, payload): the host's handler runs inside the call
Emit(s, name, payload) ==
    LET h == CASE name = "shape-added" -> handleShapeAdded(s, payload)
               [] name = "shape-selected" -> handleShapeSelected(s, payload)
               [] name = "shape-updated" -> handleShapeUpdated(s, payload)
    IN  [h EXCEPT !.emitted = Append(s.emitted, [name |-> name, shape |-> payload])]

\* handleColorChange giving the colour to every shape of the collection
handleColorChangeAll(s, color) ==
    [s EXCEPT !.activeColor = color,
              !.shapes = [i \in 1..Len(s.shapes) |->
                             [s.shapes[i] EXCEPT !.color = color]]]

\* handleColorChange: the active stroke colour; the selection, if any, is
\* copied with the colour and handed to handleShapeUpdated
handleColorChange(s, color) ==
    LET s1 == [s EXCEPT !.activeColor = color]
    IN  IF s.selectedShape # NoShape
        THEN handleShapeUpdated(s1, [s.selectedShape EXCEPT !.color = color])
        ELSE s1

\* handleFillColorChange: the same for the fill colour
handleFillColorChange(s, color) ==
    LET s1 == [s EXCEPT !.activeFillColor = color]
    IN  IF s.selectedShape # NoShape
        THEN handleShapeUpdated(s1, [s.selectedShape EXCEPT !.fillColor = color])
        ELSE s1

\* handleDeleteShape that removes the first shape of the collection
handleDeleteShapeFirst(s) ==
    IF s.selectedShape # NoShape
    THEN [s EXCEPT !.shapes = Tail(s.shapes), !.selectedShape = NoShape]
    ELSE s

\* handleDeleteShape that leaves the selection as it is
handleDeleteShapeKeepsSelection(s) ==
    IF s.selectedShape # NoShape
    THEN [s EXCEPT !.shapes = SelectSeq(s.shapes,
                                  LAMBDA shape : shape.id # s.selectedShape.id)]
    ELSE s

\* handleDeleteShape: the shapes with the selected id are filtered out and
\* the selection is cleared; nothing happens without a selection
handleDeleteShape(s) ==
    IF s.selectedShape # NoShape
    THEN [s EXCEPT !.shapes = SelectSeq(s.shapes,
                                  LAMBDA shape : shape.id # s.selectedShape.id),
                   !.selectedShape = NoShape]
    ELSE s

\* handleLoadDrawing that adds the loaded shapes to the collection
handleLoadDrawingAppends(s, loadedShapes) ==
    [s EXCEPT !.shapes = s.shapes \o loadedShapes, !.selectedShape = NoShape]

\* handleLoadDrawing: the collection becomes the loaded one and the
\* selection is cleared
handleLoadDrawing(s, loadedShapes) ==
    [s EXCEPT !.shapes = loadedShapes, !.selectedShape = NoShape]

----------------------------------------------------------------------------
(* The canvas (DrawingCanvas.vue) *)

\* DragOffsetOf with the offset forgotten: the origin jumps to the pointer
DragOffsetOfNone(x, y, clickedShape) == Pt(0, 0)

\* dragOffset at the start of a drag: the pointer minus the shape's origin
DragOffsetOf(x, y, clickedShape) ==
    Pt(x - clickedShape.x, y - clickedShape.y)

\* handleMouseDown with the body tested before the handles
handleMouseDownBodyFirst(s, p) ==
    LET s0 == [s EXCEPT !.resizeHandle = ""]
        handle == IF s0.propSelected # NoShape
                  THEN getResizeHandle(p.x, p.y, s0.propSelected) ELSE ""
        clickedShape == FindShapeAt(p.x, p.y, s0.shapes)
    IN  IF s0.activeTool = "select"
        THEN IF clickedShape # NoShape
             THEN [Emit(s0, "shape-selected", clickedShape) EXCEPT
                      !.isDrawing = TRUE, !.startPoint = p,
                      !.dragOffset = DragOffsetOf(p.x, p.y, clickedShape)]
             ELSE IF handle # ""
             THEN [s0 EXCEPT !.resizing = TRUE, !.resizeHandle = handle,
                             !.startPoint = p]
             ELSE Emit(s0, "shape-selected", NoShape)
        ELSE [s0 EXCEPT !.isDrawing = TRUE, !.startPoint = p, !.endPoint = p]

\* handleMouseDown that starts a drag also when nothing is under the pointer
handleMouseDownDragsNothing(s, p) ==
    LET s0 == [s EXCEPT !.resizeHandle = ""]
        handle == IF s0.propSelected # NoShape
                  THEN getResizeHandle(p.x, p.y, s0.propSelected) ELSE ""
        clickedShape == FindShapeAt(p.x, p.y, s0.shapes)
    IN  IF s0.activeTool = "select"
        THEN IF handle # ""
             THEN [s0 EXCEPT !.resizing = TRUE, !.resizeHandle = handle,
                             !.startPoint = p]
             ELSE [Emit(s0, "shape-selected", clickedShape) EXCEPT
                      !.isDrawing = TRUE, !.startPoint = p,
                      !.dragOffset = DragOffsetOf(p.x, p.y, clickedShape)]
        ELSE [s0 EXCEPT !.isDrawing = TRUE, !.startPoint = p, !.endPoint = p]

\* handleMouseDown, one run, pointer at p
handleMouseDown(s, p) ==
    LET s0 == [s EXCEPT !.resizeHandle = ""]
        handle == IF s0.propSelected # NoShape
                  THEN getResizeHandle(p.x, p.y, s0.propSelected) ELSE ""
        clickedShape == FindShapeAt(p.x, p.y, s0.shapes)
    IN  IF s0.activeTool = "select"
        THEN IF handle # ""
             THEN [s0 EXCEPT !.resizing = TRUE, !.resizeHandle = handle,
                             !.startPoint = p]
             ELSE IF clickedShape # NoShape
             THEN [Emit(s0, "shape-selected", clickedShape) EXCEPT
                      !.isDrawing = TRUE, !.startPoint = p,
                      !.dragOffset = DragOffsetOf(p.x, p.y, clickedShape)]
             ELSE Emit(s0, "shape-selected", NoShape)
        ELSE [s0 EXCEPT !.isDrawing = TRUE, !.startPoint = p, !.endPoint = p]

\* the bounding box of a line, recomputed from its end points
LineBox(shape) ==
    LET minX == Min2(shape.startX, shape.endX)
        minY == Min2(shape.startY, shape.endY)
        maxX == Max2(shape.startX, shape.endX)
        maxY == Max2(shape.startY, shape.endY)
    IN  [shape EXCEPT !.x = minX, !.y = minY,
                      !.width = maxX - minX, !.height = maxY - minY]

\* resizing a line: the handle's end point goes to the pointer
ResizeLine(shape, handle, x, y) ==
    LineBox(CASE handle = "start" -> [shape EXCEPT !.startX = x, !.startY = y]
              [] handle = "end" -> [shape EXCEPT !.endX = x, !.endY = y]
              [] OTHER -> shape)

\* if (shape.width < 10) shape.width = 10, and the same for the height
MinDim == 10

\* ClampDim without the minimum
ClampDimNone(d) == d

ClampDim(d) == IF d < MinDim THEN MinDim ELSE d

\* ResizeBox with the bottom-right handle adding the pointer's offset from
\* the origin to the size
ResizeBoxAdds(shape, handle, x, y) ==
    LET r == CASE handle = "top-left" ->
                    [shape EXCEPT !.width = shape.width + (shape.x - x),
                                  !.height = shape.height + (shape.y - y),
                                  !.x = x, !.y = y]
               [] handle = "top-right" ->
                    [shape EXCEPT !.width = x - shape.x,
                                  !.height = shape.height + (shape.y - y),
                                  !.y = y]
               [] handle = "bottom-left" ->
                    [shape EXCEPT !.width = shape.width + (shape.x - x),
                                  !.height = y - shape.y,
                                  !.x = x]
               [] handle = "bottom-right" ->
                    [shape EXCEPT !.width = shape.width + (x - shape.x),
                                  !.height = shape.height + (y - shape.y)]
               [] OTHER -> shape
    IN  [r EXCEPT !.width = ClampDim(r.width), !.height = ClampDim(r.height)]

\* resizing a rectangle or a circle by one of its four handles
ResizeBox(shape, handle, x, y) ==
    LET r == CASE handle = "top-left" ->
                    [shape EXCEPT !.width = shape.width + (shape.x - x),
                                  !.height = shape.height + (shape.y - y),
                                  !.x = x, !.y = y]
               [] handle = "top-right" ->
                    [shape EXCEPT !.width = x - shape.x,
                                  !.height = shape.height + (shape.y - y),
                                  !.y = y]
               [] handle = "bottom-left" ->
                    [shape EXCEPT !.width = shape.width + (shape.x - x),
                                  !.height = y - shape.y,
                                  !.x = x]
               [] handle = "bottom-right" ->
                    [shape EXCEPT !.width = x - shape.x,
                                  !.height = y - shape.y]
               [] OTHER -> shape
    IN  [r EXCEPT !.width = ClampDim(r.width), !.height = ClampDim(r.height)]

\* moving the selected shape: its origin follows the pointer
MoveShape(shape, x, y, offset) ==
    [shape EXCEPT !.x = x - offset.x, !.y = y - offset.y]

\* handleMouseMove that reports the shape being drawn on every move
handleMouseMoveLive(s, p) ==
    IF s.resizing /\ s.propSelected # NoShape
    THEN Emit(s, "shape-updated",
              IF s.propSelected.type = "line"
              THEN ResizeLine(s.propSelected, s.resizeHandle, p.x, p.y)
              ELSE ResizeBox(s.propSelected, s.resizeHandle, p.x, p.y))
    ELSE IF ~s.isDrawing THEN s
    ELSE IF s.activeTool = "select" /\ s.propSelected # NoShape
    THEN IF ~s.resizing
         THEN Emit(s, "shape-updated",
                   MoveShape(s.propSelected, p.x, p.y, s.dragOffset))
         ELSE s
    ELSE Emit([s EXCEPT !.endPoint = p], "shape-updated",
              [NoShape EXCEPT !.id = s.nextId, !.type = s.activeTool,
                              !.startX = s.startPoint.x, !.startY = s.startPoint.y,
                              !.endX = p.x, !.endY = p.y])

\* handleMouseMove, one run, pointer at p
handleMouseMove(s, p) ==
    IF s.resizing /\ s.propSelected # NoShape
    THEN Emit(s, "shape-updated",
              IF s.propSelected.type = "line"
              THEN ResizeLine(s.propSelected, s.resizeHandle, p.x, p.y)
              ELSE ResizeBox(s.propSelected, s.resizeHandle, p.x, p.y))
    ELSE IF ~s.isDrawing THEN s
    ELSE IF s.activeTool = "select" /\ s.propSelected # NoShape
    THEN IF ~s.resizing
         THEN Emit(s, "shape-updated",
                   MoveShape(s.propSelected, p.x, p.y, s.dragOffset))
         ELSE s
    ELSE [s EXCEPT !.endPoint = p]

\* if (width < 5 && height < 5) return null
MinDrawn == 5

\* TooSmall with || for &&
TooSmallEither(width, height) == width < MinDrawn \/ height < MinDrawn

TooSmall(width, height) == width < MinDrawn /\ height < MinDrawn

\* BoxOf with the start point taken for the top-left corner
BoxOfStartCorner(sp, ep) ==
    [x |-> sp.x, y |-> sp.y,
     width |-> Abs(ep.x - sp.x), height |-> Abs(ep.y - sp.y)]

\* the x, y, width and height createShape computes from the two points
BoxOf(sp, ep) ==
    [x |-> Min2(sp.x, ep.x), y |-> Min2(sp.y, ep.y),
     width |-> Abs(ep.x - sp.x), height |-> Abs(ep.y - sp.y)]

\* createShape: the shape between startPoint and endPoint, NoShape for null
createShape(s) ==
    LET b == BoxOf(s.startPoint, s.endPoint)
    IN  IF TooSmall(b.width, b.height) THEN NoShape
        ELSE [id |-> s.nextId, type |-> s.activeTool,
              x |-> b.x, y |-> b.y, width |-> b.width, height |-> b.height,
              startX |-> s.startPoint.x, startY |-> s.startPoint.y,
              endX |-> s.endPoint.x, endY |-> s.endPoint.y,
              color |-> IF s.activeColor # "" THEN s.activeColor ELSE "#333",
              fillColor |-> IF s.activeFillColor # "" THEN s.activeFillColor
                            ELSE "transparent"]

\* handleMouseUp that leaves resizing as it is
handleMouseUpKeepsResizing(s) ==
    LET newShape == createShape(s)
        s1 == IF s.isDrawing /\ ~s.resizing /\ s.activeTool # "select"
                 /\ newShape # NoShape
              THEN [Emit(s, "shape-added", newShape) EXCEPT !.nextId = s.nextId + 1]
              ELSE s
    IN  [s1 EXCEPT !.isDrawing = FALSE]

\* handleMouseUp that leaves isDrawing as it is
handleMouseUpStillDrawing(s) ==
    LET newShape == createShape(s)
        s1 == IF s.isDrawing /\ ~s.resizing /\ s.activeTool # "select"
                 /\ newShape # NoShape
              THEN [Emit(s, "shape-added", newShape) EXCEPT !.nextId = s.nextId + 1]
              ELSE s
    IN  [s1 EXCEPT !.resizing = FALSE]

\* handleMouseUp, one run (mouseup and mouseleave)
handleMouseUp(s) ==
    LET newShape == createShape(s)
        s1 == IF s.isDrawing /\ ~s.resizing /\ s.activeTool # "select"
                 /\ newShape # NoShape
              THEN [Emit(s, "shape-added", newShape) EXCEPT !.nextId = s.nextId + 1]
              ELSE s
    IN  [s1 EXCEPT !.isDrawing = FALSE, !.resizing = FALSE]

\* drawShape that draws the annotation whether annotations are shown or not
drawShapeAnnotated(shape, isSelected, annotations) ==
    <<[op |-> "body", id |-> shape.id], [op |-> "annotation", id |-> shape.id]>>
    \o (IF isSelected THEN <<[op |-> "handles", id |-> shape.id]>> ELSE <<>>)

\* drawShape(shape, isSelected): the draw primitives of one shape, in the
\* order of the calls: the body (highlighted when selected), the annotation
\* if annotations are shown, the resize handles if the shape is selected
drawShape(shape, isSelected, annotations) ==
    <<[op |-> "body", id |-> shape.id]>>
    \o (IF annotations THEN <<[op |-> "annotation", id |-> shape.id]>> ELSE <<>>)
    \o (IF isSelected THEN <<[op |-> "handles", id |-> shape.id]>> ELSE <<>>)

\* the loop of drawShapes from the i-th shape on
RECURSIVE drawShapesFrom(_, _, _, _)
drawShapesFrom(coll, i, selected, annotations) ==
    IF i > Len(coll) THEN <<>>
    ELSE drawShape(coll[i], coll[i].id = selected.id, annotations)
         \o drawShapesFrom(coll, i + 1, selected, annotations)

\* drawShapes: one frame, the canvas cleared and then every shape in
\* collection order
drawShapes(coll, selected, annotations) ==
    <<[op |-> "clear", id |-> 0]>> \o drawShapesFrom(coll, 1, selected, annotations)

\* the listener of mouseleave that only ends the gesture
onMouseLeaveCancel(s) == [s EXCEPT !.isDrawing = FALSE, !.resizing = FALSE]

\* the listener of mouseleave: handleMouseUp
onMouseLeave(s) == handleMouseUp(s)

----------------------------------------------------------------------------
(* The DOM events *)

\* the state after an event whose handlers left s
Commit(s) ==
    /\ activeTool' = s.activeTool
    /\ shapes' = s.shapes
    /\ selectedShape' = s.selectedShape
    /\ activeColor' = s.activeColor
    /\ activeFillColor' = s.activeFillColor
    /\ isDrawing' = s.isDrawing
    /\ startPoint' = s.startPoint
    /\ endPoint' = s.endPoint
    /\ dragOffset' = s.dragOffset
    /\ resizing' = s.resizing
    /\ resizeHandle' = s.resizeHandle
    /\ nextId' = s.nextId
    /\ emitted' = s.emitted
    /\ nEvents' = nEvents + 1
    /\ UNCHANGED showAnnotations
    /\ UNCHANGED offCanvas

\* the state between the two listeners of one event: the host has
\* re-rendered when the browser dispatched the event
Between(s, rendered) == IF rendered THEN Flush(s) ELSE s

\* mousedown at p: @mousedown, then the listener of onMounted
MouseDown(p) ==
    /\ nEvents < MaxEvents
    /\ gesture = NoGesture
    /\ gesture' = [tool |-> activeTool, start |-> p, last |-> p]
    /\ \E rendered \in BOOLEAN :
          Commit(handleMouseDown(Between(handleMouseDown(St, p), rendered), p))

\* mousemove at p
MouseMove(p) ==
    /\ nEvents < MaxEvents
    /\ gesture' = IF gesture = NoGesture THEN gesture ELSE [gesture EXCEPT !.last = p]
    /\ \E rendered \in BOOLEAN :
          Commit(handleMouseMove(Between(handleMouseMove(St, p), rendered), p))

\* mouseup, wherever the pointer is: the handler takes no position
MouseUp ==
    /\ nEvents < MaxEvents
    /\ gesture' = NoGesture
    /\ \E rendered \in BOOLEAN :
          LET s == handleMouseUp(Between(handleMouseUp(St), rendered))
          IN  Len(s.shapes) <= MaxShapes /\ Commit(s)

\* mouseleave: the same handler
MouseLeave ==
    /\ nEvents < MaxEvents
    /\ gesture' = NoGesture
    /\ \E rendered \in BOOLEAN :
          LET s == onMouseLeave(Between(onMouseLeave(St), rendered))
          IN  Len(s.shapes) <= MaxShapes /\ Commit(s)

\* a tool change that leaves the selection as it is
ToolChangeKeepsSelection(tool) ==
    /\ nEvents < MaxEvents
    /\ activeTool' = tool
    /\ emitted' = <<>>
    /\ nEvents' = nEvents + 1
    /\ UNCHANGED <<shapes, selectedShape, activeColor, activeFillColor, isDrawing,
                   startPoint, endPoint, dragOffset, resizing, resizeHandle, nextId,
                   gesture, showAnnotations>>
    /\ UNCHANGED offCanvas

\* handleToolChange(tool): a tool button of the toolbar
ToolChange(tool) ==
    /\ nEvents < MaxEvents
    /\ activeTool' = tool
    /\ selectedShape' = NoShape
    /\ emitted' = <<>>
    /\ nEvents' = nEvents + 1
    /\ UNCHANGED <<shapes, activeColor, activeFillColor, isDrawing, startPoint,
                   endPoint, dragOffset, resizing, resizeHandle, nextId, gesture,
                   showAnnotations>>
    /\ UNCHANGED offCanvas

\* a colour of the toolbar's stroke palette is clicked
ColorChange(color) ==
    /\ nEvents < MaxEvents
    /\ Commit([handleColorChange(St, color) EXCEPT !.emitted = <<>>])
    /\ UNCHANGED gesture

\* a colour of the toolbar's fill palette is clicked
FillColorChange(color) ==
    /\ nEvents < MaxEvents
    /\ Commit([handleFillColorChange(St, color) EXCEPT !.emitted = <<>>])
    /\ UNCHANGED gesture

\* toggleAnnotations: the toolbar's annotations button
ToggleAnnotations ==
    /\ nEvents < MaxEvents
    /\ showAnnotations' = ~showAnnotations
    /\ emitted' = <<>>
    /\ nEvents' = nEvents + 1
    /\ UNCHANGED <<activeTool, shapes, selectedShape, activeColor, activeFillColor,
                   isDrawing, startPoint, endPoint, dragOffset, resizing,
                   resizeHandle, nextId, gesture>>
    /\ UNCHANGED offCanvas

\* the toolbar's delete button, which is enabled while a shape is selected
DeleteShape ==
    /\ nEvents < MaxEvents
    /\ selectedShape # NoShape
    /\ Commit([handleDeleteShape(St) EXCEPT !.emitted = <<>>])
    /\ UNCHANGED gesture

\* load-drawing arrives at the host with the shapes of a saved drawing
LoadDrawing(loadedShapes) ==
    /\ nEvents < MaxEvents
    /\ Commit([handleLoadDrawing(St, loadedShapes) EXCEPT !.emitted = <<>>])
    /\ UNCHANGED gesture

\* the application as mounted: the refs' initial values
InitCanvas ==
    /\ activeTool = "select"
    /\ shapes = <<>>
    /\ selectedShape = NoShape
    /\ activeColor = "#333333"
    /\ activeFillColor = "transparent"
    /\ showAnnotations = TRUE
    /\ isDrawing = FALSE
    /\ startPoint = Pt(0, 0)
    /\ endPoint = Pt(0, 0)
    /\ dragOffset = Pt(0, 0)
    /\ resizing = FALSE
    /\ resizeHandle = ""
    /\ nextId = 1
    /\ emitted = <<>>
    /\ gesture = NoGesture
    /\ nEvents = 0

\* nothing asked of the geometry, the database opened and empty
InitOffCanvas ==
    /\ query = NoQuery
    /\ result = NoResult
    /\ store = <<>>
    /\ txs = <<>>
    /\ uuids = {}
    /\ manager = ClosedManager
    /\ reply = NoReply
    /\ nOps = 0

Init == InitCanvas /\ InitOffCanvas

Next ==
    \/ \E p \in Points : MouseDown(p)
    \/ \E p \in Points : MouseMove(p)
    \/ MouseUp
    \/ MouseLeave
    \/ \E tool \in Tools : ToolChange(tool)

Spec == Init /\ [][Next]_vars

----------------------------------------------------------------------------
(* The geometric predicates on their own: a point and a shape are given,   *)
(* isPointInShape and pointToLineDistance are applied to them.             *)

\* a shape as a gesture from sp to ep leaves it, or a later resize of a line
ShapeBetween(type, sp, ep) ==
    [id |-> 1, type |-> type,
     x |-> Min2(sp.x, ep.x), y |-> Min2(sp.y, ep.y),
     width |-> Abs(ep.x - sp.x), height |-> Abs(ep.y - sp.y),
     startX |-> sp.x, startY |-> sp.y, endX |-> ep.x, endY |-> ep.y,
     color |-> "#333333", fillColor |-> "transparent"]

GeoPoints ==
    {Pt(px, py) : px \in (0 - MaxCoord)..(2 * MaxCoord),
                  py \in (0 - MaxCoord)..(2 * MaxCoord)}

\* lines from (1,2) in every direction, the line without length included;
\* rectangles and circles at (1,2) of every width and height, 0 included
GeoShapes ==
    {ShapeBetween("line", Pt(1, 2), Pt(1 + dx, 2 + dy)) :
        dx \in (0 - MaxCoord)..MaxCoord, dy \in (0 - MaxCoord)..MaxCoord}
    \cup {ShapeBetween(type, Pt(1, 2), Pt(1 + w, 2 + h)) :
             type \in {"rectangle", "circle"}, w \in 0..MaxCoord, h \in 0..MaxCoord}

\* isPointInShape(x, y, shape) is called
HitTest ==
    /\ result' = [op |-> "isPointInShape",
                  inside |-> isPointInShape(query.p.x, query.p.y, query.shape)]
    /\ UNCHANGED <<canvasVars, query, store, txs, uuids, manager, reply, nOps>>

\* pointToLineDistance(point, lineStart, lineEnd) is called, for a line
Distance ==
    /\ query.shape.type = "line"
    /\ result' = [op |-> "pointToLineDistance",
                  d |-> pointToLineDistanceSq(
                           query.p, Pt(query.shape.startX, query.shape.startY),
                           Pt(query.shape.endX, query.shape.endY))]
    /\ UNCHANGED <<canvasVars, query, store, txs, uuids, manager, reply, nOps>>

InitGeometry ==
    /\ InitCanvas
    /\ query \in [p : GeoPoints, shape : GeoShapes]
    /\ result = NoResult
    /\ store = <<>>
    /\ txs = <<>>
    /\ uuids = {}
    /\ manager = ClosedManager
    /\ reply = NoReply
    /\ nOps = 0

NextGeometry == HitTest \/ Distance

SpecGeometry == InitGeometry /\ [][NextGeometry]_vars

\* The same program with the pointer positions of the resize scenario and
\* the two tools it needs
ScenarioPoints == { Pt(0, 0), Pt(100, 100), Pt(40, 40), Pt(-5, -5) }

ScenarioTools == {"select", "rectangle"}

NextScenario ==
    \/ \E p \in ScenarioPoints : MouseDown(p)
    \/ \E p \in ScenarioPoints : MouseMove(p)
    \/ MouseUp
    \/ MouseLeave
    \/ \E tool \in ScenarioTools : ToolChange(tool)

SpecScenario == Init /\ [][NextScenario]_vars

\* The same program with a short line, a long line and the two tools they need
LinePoints == { Pt(0, 0), Pt(10, 0), Pt(60, 40) }

LineTools == {"select", "line"}

NextLine ==
    \/ \E p \in LinePoints : MouseDown(p)
    \/ \E p \in LinePoints : MouseMove(p)
    \/ MouseUp
    \/ MouseLeave
    \/ \E tool \in LineTools : ToolChange(tool)

SpecLine == Init /\ [][NextLine]_vars

\* The same program with the drawing tools only, and pointer positions that
\* are near each other in both axes, in one axis, and in none
SketchPoints == { Pt(10, 10), Pt(12, 11), Pt(12, 40), Pt(60, 40) }

SketchTools == {"rectangle", "line"}

NextSketch ==
    \/ \E p \in SketchPoints : MouseDown(p)
    \/ \E p \in SketchPoints : MouseMove(p)
    \/ MouseUp
    \/ MouseLeave
    \/ \E tool \in SketchTools : ToolChange(tool)

SpecSketch == Init /\ [][NextSketch]_vars

\* The same program with the toolbar's palettes and its annotations button
HostPoints == { Pt(0, 0), Pt(10, 10), Pt(60, 40) }

HostTools == {"select", "rectangle"}

Colors == {"#333333", "#e53935"}

FillColors == {"transparent", "#ffcdd2"}

NextHost ==
    \/ \E p \in HostPoints : MouseDown(p)
    \/ \E p \in HostPoints : MouseMove(p)
    \/ MouseUp
    \/ MouseLeave
    \/ \E tool \in HostTools : ToolChange(tool)
    \/ \E color \in Colors : ColorChange(color)
    \/ \E color \in FillColors : FillColorChange(color)
    \/ ToggleAnnotations

SpecHost == Init /\ [][NextHost]_vars

\* The same program with the toolbar's delete button and the loading of
\* saved drawings
AppPoints == { Pt(0, 0), Pt(10, 10), Pt(60, 40) }

AppTools == {"select", "rectangle"}

\* a shape as it was saved in an earlier session, under the id it got then
SavedShape(id, type, sp, ep) == [ShapeBetween(type, sp, ep) EXCEPT !.id = id]

\* the collections of the saved drawings
SavedCollections ==
    { <<>>,
      <<SavedShape(101, "rectangle", Pt(0, 0), Pt(10, 10))>>,
      <<SavedShape(102, "line", Pt(0, 0), Pt(60, 40)),
        SavedShape(103, "rectangle", Pt(10, 10), Pt(60, 40))>> }

NextApp ==
    \/ \E p \in AppPoints : MouseDown(p)
    \/ \E p \in AppPoints : MouseMove(p)
    \/ MouseUp
    \/ MouseLeave
    \/ \E tool \in AppTools : ToolChange(tool)
    \/ DeleteShape
    \/ \E loadedShapes \in SavedCollections : LoadDrawing(loadedShapes)

SpecApp == Init /\ [][NextApp]_vars

----------------------------------------------------------------------------
(* Vocabulary of the properties *)

AllPoints ==
    Points \cup ScenarioPoints \cup LinePoints \cup SketchPoints \cup HostPoints
           \cup AppPoints

DrawTools == {"line", "rectangle", "circle"}

\* this step is a mouseup or a mouseleave
Released == MouseUp \/ MouseLeave

\* a gesture that began and is about to end with a drawing tool active
DrawingGesture ==
    gesture # NoGesture /\ gesture.tool \in DrawTools /\ activeTool \in DrawTools

\* this step appends one shape of the active tool whose box spans s and e
AddsBox(s, e) ==
    /\ Len(shapes') = Len(shapes) + 1
    /\ SubSeq(shapes', 1, Len(shapes)) = shapes
    /\ LET sh == shapes'[Len(shapes')]
       IN  /\ sh.type = activeTool
           /\ sh.x = Min2(s.x, e.x) /\ sh.y = Min2(s.y, e.y)
           /\ sh.width = Abs(e.x - s.x) /\ sh.height = Abs(e.y - s.y)

\* the events of the last DOM event are all `name`, and there is one at least
EmittedOnly(name) ==
    emitted # <<>> /\ \A i \in 1..Len(emitted) : emitted[i].name = name

----------------------------------------------------------------------------
(* C1 *)

\* C1: in every reachable state every line of the collection has
\* x = min(startX, endX), y = min(startY, endY), width = |endX - startX| and
\* height = |endY - startY|.
C1_LineBoxInSync ==
    \A i \in 1..Len(shapes) :
        shapes[i].type = "line" =>
            /\ shapes[i].x = Min2(shapes[i].startX, shapes[i].endX)
            /\ shapes[i].y = Min2(shapes[i].startY, shapes[i].endY)
            /\ shapes[i].width = Abs(shapes[i].endX - shapes[i].startX)
            /\ shapes[i].height = Abs(shapes[i].endY - shapes[i].startY)

----------------------------------------------------------------------------
(* C2 *)

\* C2 as stated: a drawing gesture that began at s and receives mouseup at e
\* adds a shape with x = min(s.x, e.x), y = min(s.y, e.y),
\* width = |e.x - s.x|, height = |e.y - s.y|, whatever moves came between:
\* whatever position e the mouseup carries.
C2_UpPositionSpansShape ==
    [][\A e \in AllPoints :
          (MouseUp /\ DrawingGesture) => AddsBox(gesture.start, e)]_vars

\* C2, amended: a drawing gesture that began at s, with e the last position
\* a mousedown or mousemove of the gesture reported, adds at mouseup or
\* mouseleave a shape of the active tool with x = min(s.x, e.x),
\* y = min(s.y, e.y), width = |e.x - s.x|, height = |e.y - s.y| when
\* width >= 5 or height >= 5, and nothing otherwise.
C2_LastPositionSpansShape ==
    [][(Released /\ DrawingGesture) =>
          LET s == gesture.start
              e == gesture.last
          IN  IF Abs(e.x - s.x) >= 5 \/ Abs(e.y - s.y) >= 5
              THEN AddsBox(s, e)
              ELSE shapes' = shapes]_vars

\* C2: mousedown at (10,10) with the rectangle tool, the pointer moved to
\* (60,40), released: the rectangle {10, 10, 50, 30} has just been added.
C2_Witness ==
    /\ gesture = NoGesture
    /\ Len(emitted) = 1 /\ emitted[1].name = "shape-added"
    /\ startPoint = Pt(10, 10) /\ endPoint = Pt(60, 40)
    /\ LET sh == shapes[Len(shapes)]
       IN  /\ sh = emitted[1].shape
           /\ sh.type = "rectangle"
           /\ sh.x = 10 /\ sh.y = 10 /\ sh.width = 50 /\ sh.height = 30

----------------------------------------------------------------------------
(* C3 *)

\* C3: a drawing gesture whose start and end points differ by less than 5
\* in both axes adds no shape and emits no event at release; one with
\* width >= 5 or height >= 5 emits shape-added, once.
C3_SmallShapesDiscarded ==
    [][(Released /\ DrawingGesture) =>
          LET w == Abs(gesture.last.x - gesture.start.x)
              h == Abs(gesture.last.y - gesture.start.y)
          IN  IF w < 5 /\ h < 5
              THEN emitted' = <<>> /\ shapes' = shapes
              ELSE /\ Len(emitted') = 1
                   /\ emitted'[1].name = "shape-added"
                   /\ shapes' = Append(shapes, emitted'[1].shape)]_vars

\* C3: the rectangle gesture from (10,10) to (12,11) has been released and
\* the collection is still empty.
C3_Witness ==
    /\ gesture = NoGesture /\ ~isDrawing
    /\ activeTool = "rectangle"
    /\ startPoint = Pt(10, 10) /\ endPoint = Pt(12, 11)
    /\ emitted = <<>> /\ shapes = <<>> /\ nextId = 1

----------------------------------------------------------------------------
(* C4 *)

\* the start and end points of a line
StartOf(shape) == Pt(shape.startX, shape.startY)
EndOf(shape) == Pt(shape.endX, shape.endY)

\* C4 as stated: with a line selected, the handle lookup of a mousedown at
\* the line's start point gives 'start' and at its end point gives 'end'.
C4_EndPointGivesEnd ==
    [][\A p \in AllPoints :
          (MouseDown(p) /\ activeTool = "select" /\ selectedShape.type = "line") =>
              /\ p = StartOf(selectedShape) =>
                    resizing' /\ resizeHandle' = "start"
              /\ p = EndOf(selectedShape) =>
                    resizing' /\ resizeHandle' = "end"]_vars

\* C4, amended: the lookup at the line's start point gives 'start'; the
\* lookup at its end point gives 'end' when the end point is more than 10
\* from the start point in x or in y, and 'start' (tested first) when it is
\* within 10 in both, as for the line (0,0)-(10,0) at (10,0).
C4_EndPointGivesEndWhenFar ==
    [][\A p \in AllPoints :
          (MouseDown(p) /\ activeTool = "select" /\ selectedShape.type = "line") =>
              LET far == \/ Abs(selectedShape.endX - selectedShape.startX) > 10
                         \/ Abs(selectedShape.endY - selectedShape.startY) > 10
              IN  /\ p = StartOf(selectedShape) =>
                        resizing' /\ resizeHandle' = "start"
                  /\ p = EndOf(selectedShape) =>
                        resizing' /\ resizeHandle' = IF far THEN "end" ELSE "start"]_vars

\* C4: a line whose end point is far from its start point is selected and a
\* mousedown at its end point has just recorded the handle 'end'.
C4_Witness ==
    /\ activeTool = "select" /\ selectedShape.type = "line"
    /\ gesture # NoGesture /\ gesture.last = gesture.start
    /\ gesture.start = EndOf(selectedShape)
    /\ gesture.start # StartOf(selectedShape)
    /\ resizing /\ resizeHandle = "end" /\ emitted = <<>>

----------------------------------------------------------------------------
(* C5 *)

\* the entry of the collection with the id of shape `sh`, NoShape if none
EntryOf(coll, sh) ==
    LET same == {i \in 1..Len(coll) : coll[i].id = sh.id}
    IN  IF same = {} THEN NoShape ELSE coll[CHOOSE i \in same : TRUE]

\* C5: while a rectangle or a circle is resized, every mousemove emits
\* shape-updated values with width >= 10 and height >= 10, and the shape in
\* the collection then has width >= 10 and height >= 10.
C5_ResizeKeepsMinimum ==
    [][\A p \in AllPoints :
          (MouseMove(p) /\ resizing /\ selectedShape.type \in {"rectangle", "circle"}) =>
              /\ EmittedOnly("shape-updated")'
              /\ \A i \in 1..Len(emitted') :
                    /\ emitted'[i].shape.width >= 10
                    /\ emitted'[i].shape.height >= 10
              /\ EntryOf(shapes', selectedShape).width >= 10
              /\ EntryOf(shapes', selectedShape).height >= 10]_vars

\* C5: a resize has just pulled a handle so close that width and height
\* would fall below 10, and the emitted shape has width 10 and height 10.
C5_Witness ==
    /\ resizing /\ selectedShape.type \in {"rectangle", "circle"}
    /\ resizeHandle = "bottom-right"
    /\ gesture.last.x - selectedShape.x < 10
    /\ gesture.last.y - selectedShape.y < 10
    /\ EmittedOnly("shape-updated")
    /\ emitted[1].shape.width = 10 /\ emitted[1].shape.height = 10
    /\ EntryOf(shapes, selectedShape) = emitted[1].shape

----------------------------------------------------------------------------
(* C6 *)

----------------------------------------------------------------------------
(* C7 *)

\* the indices of the shapes of the collection that contain p
Containing(p) == {i \in 1..Len(shapes) : isPointInShape(p.x, p.y, shapes[i])}

\* no handle of the selected shape is at p
NoHandleAt(p) ==
    selectedShape = NoShape \/ getResizeHandle(p.x, p.y, selectedShape) = ""

\* C7: a mousedown with the select tool at a point where no handle of the
\* selected shape matches selects the earliest shape of the collection among
\* those containing the point (and emits shape-selected with it first).
C7_FirstMatchSelected ==
    [][\A p \in AllPoints :
          (MouseDown(p) /\ activeTool = "select" /\ NoHandleAt(p)
             /\ Containing(p) # {}) =>
              LET first == CHOOSE i \in Containing(p) :
                              \A j \in Containing(p) : i <= j
              IN  /\ selectedShape' = shapes[first]
                  /\ emitted' # <<>>
                  /\ emitted'[1] = [name |-> "shape-selected", shape |-> shapes[first]]]_vars

\* C7: two shapes contain the point of the mousedown that has just selected
\* the first of them.
C7_Witness ==
    /\ activeTool = "select" /\ gesture # NoGesture
    /\ gesture.last = gesture.start
    /\ Len(shapes) = 2
    /\ Containing(gesture.start) = {1, 2}
    /\ shapes[1] # shapes[2]
    /\ selectedShape = shapes[1]
    /\ emitted # <<>> /\ emitted[1].name = "shape-selected"

----------------------------------------------------------------------------
(* C8 *)

\* C8: a mousedown with the select tool at a point that matches a handle of
\* the selected shape and lies inside the body of some shape enters the
\* resizing state with that handle recorded; shape-selected is not emitted,
\* the selection stays and no drag is started.
C8_HandleBeforeBody ==
    [][\A p \in AllPoints :
          (MouseDown(p) /\ activeTool = "select" /\ ~NoHandleAt(p)
             /\ Containing(p) # {}) =>
              /\ resizing'
              /\ resizeHandle' = getResizeHandle(p.x, p.y, selectedShape)
              /\ emitted' = <<>>
              /\ selectedShape' = selectedShape
              /\ ~isDrawing']_vars

\* C8: a mousedown inside a shape and on a handle of the selected shape has
\* just entered the resizing state without an event.
C8_Witness ==
    /\ activeTool = "select" /\ gesture # NoGesture
    /\ gesture.last = gesture.start
    /\ selectedShape # NoShape
    /\ getResizeHandle(gesture.start.x, gesture.start.y, selectedShape) # ""
    /\ Containing(gesture.start) # {}
    /\ resizing /\ ~isDrawing /\ emitted = <<>>
    /\ resizeHandle = getResizeHandle(gesture.start.x, gesture.start.y, selectedShape)

----------------------------------------------------------------------------
(* C9 *)

\* the controller is dragging the selected shape
Dragging ==
    /\ gesture # NoGesture /\ activeTool = "select"
    /\ isDrawing /\ ~resizing /\ selectedShape # NoShape

\* C9: a drag begins with a mousedown at p0 on a shape of the collection,
\* which becomes the selection; from then on every mousemove to p emits
\* shape-updated for that shape with x = p.x - (p0.x - x0) and
\* y = p.y - (p0.y - y0), (x0, y0) its origin at the mousedown, and with its
\* id, type, width, height, end points and colours as they were.
C9_DragFollowsPointer ==
    [][\A p \in AllPoints :
          /\ (MouseDown(p) /\ Dragging') =>
                /\ Containing(p) # {}
                /\ \E i \in Containing(p) : selectedShape' = shapes[i]
                /\ gesture'.start = p
          /\ (MouseMove(p) /\ Dragging) =>
                LET want == [selectedShape EXCEPT
                                !.x = p.x - (gesture.start.x - selectedShape.x),
                                !.y = p.y - (gesture.start.y - selectedShape.y)]
                IN  /\ emitted' # <<>>
                    /\ \A i \in 1..Len(emitted') :
                          emitted'[i] = [name |-> "shape-updated", shape |-> want]
                    /\ selectedShape' = selectedShape
                    /\ Dragging']_vars

\* C9: a drag has moved a shape away from where it was at the mousedown.
C9_Witness ==
    /\ Dragging
    /\ gesture.last # gesture.start
    /\ EmittedOnly("shape-updated")
    /\ emitted[1].shape.id = selectedShape.id
    /\ emitted[1].shape.x = selectedShape.x + (gesture.last.x - gesture.start.x)
    /\ emitted[1].shape.y = selectedShape.y + (gesture.last.y - gesture.start.y)
    /\ emitted[1].shape.x # selectedShape.x
    /\ EntryOf(shapes, selectedShape) = emitted[1].shape

----------------------------------------------------------------------------
(* C10 *)

Ids(coll) == [i \in 1..Len(coll) |-> coll[i].id]

\* C10: every shape-updated event of a drag or a resize carries the id of a
\* shape of the collection; the mousemove leaves the collection with the
\* same length and the same ids in the same order, changes no entry but the
\* one with that id, which becomes the emitted shape, and the ids of the
\* collection stay pairwise distinct.
C10_UpdateKeepsIdentity ==
    [][/\ \A i, j \in 1..Len(shapes') : shapes'[i].id = shapes'[j].id => i = j
       /\ \A p \in AllPoints :
            MouseMove(p) =>
               /\ Ids(shapes') = Ids(shapes)
               /\ \A k \in 1..Len(emitted') :
                     /\ emitted'[k].name = "shape-updated"
                     /\ \E i \in 1..Len(shapes) : shapes[i].id = emitted'[k].shape.id
               /\ \A i \in 1..Len(shapes) :
                     shapes'[i] # shapes[i] =>
                        /\ emitted' # <<>>
                        /\ shapes'[i] = emitted'[Len(emitted')].shape]_vars

\* C10: with two shapes in the collection a mousemove has just replaced one
\* of them by the shape it emitted.
C10_Witness ==
    /\ Len(shapes) = 2 /\ shapes[1].id # shapes[2].id
    /\ EmittedOnly("shape-updated")
    /\ selectedShape.id = shapes[1].id
    /\ shapes[1] = emitted[1].shape
    /\ shapes[1] # selectedShape

----------------------------------------------------------------------------
(* C11 *)

\* the canvas is neither drawing or dragging nor resizing
Idle == ~isDrawing /\ ~resizing

\* the last DOM event changed neither the collection nor the selection and
\* made the canvas emit nothing
Inert == emitted' = <<>> /\ shapes' = shapes /\ selectedShape' = selectedShape

\* C11: every mouseup and every mouseleave, whatever the canvas was doing,
\* leaves it idle (isDrawing and resizing both false); it stays idle until
\* the next mousedown, and a mousemove that arrives in between emits
\* nothing and changes neither the collection nor the selection.
C11_ReleaseGoesIdle ==
    [][/\ Released => Idle'
       /\ gesture = NoGesture => Idle
       /\ \A p \in AllPoints :
             (MouseMove(p) /\ gesture = NoGesture) => (Inert /\ Idle')]_vars

\* C11: a resize gesture has been released: the handle it used is still
\* recorded, a shape is selected, and the canvas is idle.
C11_Witness ==
    /\ gesture = NoGesture /\ Idle
    /\ resizeHandle # "" /\ selectedShape # NoShape
    /\ EntryOf(shapes, selectedShape) # selectedShape

----------------------------------------------------------------------------
(* C12 *)

\* C12: a mouseleave does exactly what a mouseup does in the same state.
\* Either leaves the canvas idle; while the canvas is resizing, dragging
\* (select tool) or idle it emits nothing and leaves the collection as the
\* last mousemove left it; while a shape is being drawn it adds the shape
\* between the start point and the end point and emits shape-added once,
\* unless both width and height are below 5, in which case it adds nothing.
C12_LeaveIsRelease ==
    [][/\ MouseLeave <=> MouseUp
       /\ MouseLeave =>
             /\ Idle'
             /\ selectedShape' = selectedShape
             /\ (resizing \/ ~isDrawing \/ activeTool = "select") =>
                   (emitted' = <<>> /\ shapes' = shapes)
             /\ (isDrawing /\ ~resizing /\ activeTool # "select") =>
                   IF /\ Abs(endPoint.x - startPoint.x) < 5
                      /\ Abs(endPoint.y - startPoint.y) < 5
                   THEN emitted' = <<>> /\ shapes' = shapes
                   ELSE /\ Len(emitted') = 1
                        /\ emitted'[1].name = "shape-added"
                        /\ AddsBox(startPoint, endPoint)
                        /\ shapes' = Append(shapes, emitted'[1].shape)]_vars

\* C12: a drag that moved the selected shape has been ended: the canvas is
\* idle, the collection holds the shape where the last mousemove put it.
C12_Witness ==
    /\ gesture = NoGesture /\ Idle /\ activeTool = "select"
    /\ emitted = <<>> /\ resizeHandle = ""
    /\ selectedShape # NoShape
    /\ EntryOf(shapes, selectedShape) # NoShape
    /\ EntryOf(shapes, selectedShape).x # selectedShape.x

----------------------------------------------------------------------------
(* C13 *)

\* the frame the canvas draws for the current collection and selection
Frame == drawShapes(shapes, selectedShape, showAnnotations)

\* C13: in every frame the resize handles of the selected shape come after
\* the body of every shape of the collection.
C13_HandlesAfterBodies ==
    \A i, j \in 1..Len(Frame) :
        (Frame[i].op = "handles" /\ Frame[j].op = "body") => j < i

----------------------------------------------------------------------------
(* C14 *)

\* C14: in every reachable state in which a shape is selected, the selected
\* shape the host holds (and hands to the canvas, to its colour handlers and
\* to the status bar) equals the shape the collection holds under its id.
C14_SelectionIsCurrent ==
    selectedShape # NoShape => EntryOf(shapes, selectedShape) = selectedShape

----------------------------------------------------------------------------
(* C15 *)

\* this step is a click on a colour of the stroke or of the fill palette
ColourChanged ==
    \/ \E color \in Colors : ColorChange(color)
    \/ \E color \in FillColors : FillColorChange(color)

\* this step adds a shape that carries the active colours
NewShapeHasActiveColours ==
    Len(shapes') = Len(shapes) + 1 =>
        /\ shapes'[Len(shapes')].color = activeColor
        /\ shapes'[Len(shapes')].fillColor = activeFillColor

\* C15 as stated: a change of the active stroke or fill colour changes no
\* shape of the collection, selected or not; a shape created afterwards
\* carries the active colours.
C15_ColoursForNewShapesOnly ==
    [][/\ ColourChanged => shapes' = shapes
       /\ Released => NewShapeHasActiveColours]_vars

\* the collection after the selection, recoloured by recolour, has replaced
\* the entry with its id
WithSelection(recolour) ==
    [i \in 1..Len(shapes) |->
        IF shapes[i].id = selectedShape.id THEN recolour ELSE shapes[i]]

\* C15: a change of the active stroke (fill) colour sets the active colour
\* and changes no shape other than the one with the selected id, whose entry
\* becomes the selected shape with the new colour (fill colour); with nothing
\* selected the collection is unchanged; a shape created afterwards carries
\* the active colours.
C15_ColourChangeRecoloursSelection ==
    [][/\ \A color \in Colors : ColorChange(color) =>
             /\ activeColor' = color /\ activeFillColor' = activeFillColor
             /\ shapes' = WithSelection([selectedShape EXCEPT !.color = color])
       /\ \A color \in FillColors : FillColorChange(color) =>
             /\ activeFillColor' = color /\ activeColor' = activeColor
             /\ shapes' = WithSelection([selectedShape EXCEPT !.fillColor = color])
       /\ ColourChanged => selectedShape' = selectedShape
       /\ Released => NewShapeHasActiveColours]_vars

\* C15: of two shapes created with the active colours the selected one has
\* been given the second stroke colour and the other one kept the first.
C15_Witness ==
    /\ Len(shapes) = 2 /\ selectedShape # NoShape
    /\ activeColor = "#e53935"
    /\ EntryOf(shapes, selectedShape).color = "#e53935"
    /\ selectedShape.color = "#333333"
    /\ \E i \in 1..2 : shapes[i].id # selectedShape.id /\ shapes[i].color = "#333333"

----------------------------------------------------------------------------
(* C16 *)

\* the last DOM event made the canvas emit shape-added
EmittedAdded == \E i \in 1..Len(emitted') : emitted'[i].name = "shape-added"

\* C16: a tool change leaves the canvas idle, also in the middle of a
\* gesture, so that the mouseup after it adds no shape and the mousemove
\* after it emits nothing; shape-added is only emitted at the end of a
\* gesture whose mousedown came with a drawing tool active.
C16_ToolChangeResets ==
    [][/\ (\E tool \in Tools : ToolChange(tool)) => Idle'
       /\ (Released /\ EmittedAdded) => gesture.tool \in DrawTools]_vars

----------------------------------------------------------------------------
(* C17 *)

\* the last DOM event made the canvas emit shape-updated
EmittedUpdated == \E i \in 1..Len(emitted') : emitted'[i].name = "shape-updated"

\* the canvas is in the middle of a resize or of a drag
ResizeOrDragState == resizing \/ (isDrawing /\ activeTool = "select")

\* C17: while no shape is selected a mousemove emits no shape-updated and
\* leaves the collection unchanged; when it arrives in the resize or the
\* drag state it leaves the canvas idle and changes none of its other
\* fields.
C17_NoSelectionIsInert ==
    [][\A p \in AllPoints :
          (MouseMove(p) /\ selectedShape = NoShape) =>
              /\ ~EmittedUpdated /\ shapes' = shapes
              /\ selectedShape' = NoShape
              /\ ResizeOrDragState =>
                    /\ Idle'
                    /\ UNCHANGED <<startPoint, endPoint, dragOffset, resizeHandle>>]_vars

----------------------------------------------------------------------------
(* C18 *)

\* C18: a mousedown with the select tool at a point where no handle of the
\* selected shape and no shape of the collection matches (the collection
\* may be empty, the selection absent) emits shape-selected with null and
\* nothing else, clears the selection, leaves the collection unchanged and
\* the canvas idle; the mousemoves that follow emit nothing.
C18_MissDeselects ==
    [][\A p \in AllPoints :
          /\ (/\ MouseDown(p) /\ activeTool = "select"
              /\ NoHandleAt(p) /\ Containing(p) = {}) =>
                /\ emitted' # <<>>
                /\ \A i \in 1..Len(emitted') :
                      emitted'[i] = [name |-> "shape-selected", shape |-> NoShape]
                /\ selectedShape' = NoShape
                /\ shapes' = shapes
                /\ Idle'
          /\ (MouseMove(p) /\ Idle) => (Inert /\ Idle')]_vars

\* C18: with a shape in the collection, a mousedown with the select tool
\* beside it has emitted shape-selected with null.
C18_Witness ==
    /\ gesture # NoGesture /\ gesture.tool = "select" /\ activeTool = "select"
    /\ gesture.last = gesture.start
    /\ shapes # <<>> /\ Containing(gesture.start) = {}
    /\ selectedShape = NoShape /\ Idle
    /\ emitted # <<>> /\ emitted[1] = [name |-> "shape-selected", shape |-> NoShape]

----------------------------------------------------------------------------
(* C19 *)

\* C19: between the mousedown of a gesture begun with a drawing tool and its
\* release, a mousemove to p sets the end point to p and changes nothing
\* else: it emits no event and leaves the collection, the selection, the
\* start point and the flags as they are.
C19_DrawingMovesOnlyEndPoint ==
    [][\A p \in AllPoints :
          (MouseMove(p) /\ gesture # NoGesture /\ gesture.tool \in DrawTools) =>
              /\ Inert
              /\ endPoint' = p
              /\ isDrawing /\ ~resizing
              /\ UNCHANGED <<activeTool, activeColor, activeFillColor, isDrawing,
                             startPoint, dragOffset, resizing, resizeHandle,
                             nextId>>]_vars

\* C19: with a shape already in the collection, a drawing gesture has moved
\* its end point away from its start point and is not released yet.
C19_Witness ==
    /\ gesture # NoGesture /\ gesture.tool \in DrawTools
    /\ activeTool = gesture.tool
    /\ isDrawing /\ startPoint = gesture.start /\ endPoint = gesture.last
    /\ endPoint # startPoint
    /\ shapes # <<>> /\ emitted = <<>>

----------------------------------------------------------------------------
(* C20 *)

\* the canvas is resizing the selected line by one of its two handles
ResizingLine ==
    /\ resizing /\ selectedShape # NoShape /\ selectedShape.type = "line"
    /\ resizeHandle \in {"start", "end"}

\* shape has the bounding box of its two end points, without a minimum
BoxOfEndPoints(shape) ==
    /\ shape.x = Min2(shape.startX, shape.endX)
    /\ shape.y = Min2(shape.startY, shape.endY)
    /\ shape.width = Abs(shape.endX - shape.startX)
    /\ shape.height = Abs(shape.endY - shape.startY)

\* C20: while a selected line is resized by its start (end) handle, a
\* mousemove to p emits shape-updated with a line whose start (end) point
\* is p, whose other end point is the one the line has in the collection,
\* and whose bounding box is that of the two end points, with no minimum
\* width or height; the collection's line becomes that line.
C20_LineResizeMovesOneEnd ==
    [][\A p \in AllPoints :
          (MouseMove(p) /\ ResizingLine) =>
              LET old == EntryOf(shapes, selectedShape)
                  new == EntryOf(shapes', selectedShape)
              IN  /\ emitted' # <<>>
                  /\ \A i \in 1..Len(emitted') :
                        emitted'[i] = [name |-> "shape-updated", shape |-> new]
                  /\ IF resizeHandle = "start"
                     THEN StartOf(new) = p /\ EndOf(new) = EndOf(old)
                     ELSE EndOf(new) = p /\ StartOf(new) = StartOf(old)
                  /\ BoxOfEndPoints(new)]_vars

----------------------------------------------------------------------------
(* C21 *)

\* the square of the distance from p to the segment from a to b, as
\* num / den: to the nearer end when the foot of the perpendicular is
\* outside the segment, to the line otherwise (cross product over length)
SegmentDistanceSq(p, a, b) ==
    LET ux == b.x - a.x
        uy == b.y - a.y
        vx == p.x - a.x
        vy == p.y - a.y
        along == vx * ux + vy * uy
        cross == vx * uy - vy * ux
        len2 == ux * ux + uy * uy
    IN  IF len2 = 0 \/ along <= 0
        THEN [num |-> vx * vx + vy * vy, den |-> 1]
        ELSE IF along >= len2
        THEN [num |-> (p.x - b.x) * (p.x - b.x) + (p.y - b.y) * (p.y - b.y), den |-> 1]
        ELSE [num |-> cross * cross, den |-> len2]

\* p is in the shape, by the definitions of the three kinds
Contains(p, shape) ==
    CASE shape.type = "rectangle" ->
            /\ p.x \in shape.x..(shape.x + shape.width)
            /\ p.y \in shape.y..(shape.y + shape.height)
      [] shape.type = "circle" ->
            \* 4 * distance^2 <= (2 * radius)^2, centre (x + w/2, y + h/2)
            (2 * p.x - 2 * shape.x - shape.width) * (2 * p.x - 2 * shape.x - shape.width)
            + (2 * p.y - 2 * shape.y - shape.height) * (2 * p.y - 2 * shape.y - shape.height)
            <= Max2(shape.width, shape.height) * Max2(shape.width, shape.height)
      [] shape.type = "line" ->
            LET d == SegmentDistanceSq(p, Pt(shape.startX, shape.startY),
                                       Pt(shape.endX, shape.endY))
            IN  d.num < 25 * d.den

\* C21: isPointInShape returns true exactly when the point is in the shape:
\* within the bounds of a rectangle, edges included; at a distance of at
\* most max(width, height) / 2 from the centre of a circle; at a distance
\* of less than 5 from the segment of a line.
C21_PointInShape ==
    result.op = "isPointInShape" => (result.inside <=> Contains(query.p, query.shape))

\* C21: a point beside a line, at neither of its ends and closer than 5 to
\* it, has been found to be in it.
C21_Witness ==
    /\ result.op = "isPointInShape" /\ result.inside
    /\ query.shape.type = "line"
    /\ query.shape.width > 0 /\ query.shape.height > 0
    /\ SegmentDistanceSq(query.p, Pt(query.shape.startX, query.shape.startY),
                         Pt(query.shape.endX, query.shape.endY)).num > 0
    /\ query.p.x > query.shape.x + query.shape.width

----------------------------------------------------------------------------
(* C22 *)

\* C22: for a segment without length, from a to a, pointToLineDistance
\* returns the Euclidean distance from the point to a (compared as squares).
C22_PointSegmentIsDistance ==
    (/\ result.op = "pointToLineDistance"
     /\ query.shape.startX = query.shape.endX
     /\ query.shape.startY = query.shape.endY) =>
        result.d.num =
            result.d.den * ((query.p.x - query.shape.startX) * (query.p.x - query.shape.startX)
                            + (query.p.y - query.shape.startY) * (query.p.y - query.shape.startY))

\* C22: the distance of a point to a segment without length elsewhere has
\* been computed.
C22_Witness ==
    /\ result.op = "pointToLineDistance"
    /\ query.shape.startX = query.shape.endX
    /\ query.shape.startY = query.shape.endY
    /\ query.p = Pt(4, 6) /\ result.d.num = 25 * result.d.den

----------------------------------------------------------------------------
(* C23 *)

\* the mousemove before this one was at p too and made the canvas emit
\* shape-updated
MovedBeforeTo(p) ==
    /\ gesture # NoGesture /\ gesture.last = p
    /\ emitted # <<>> /\ emitted[1].name = "shape-updated"

\* C23: the shape a drawing gesture adds is left as it is when its bounding
\* box is recomputed from its start and end points; the width and height a
\* resize of a rectangle or circle emits are left as they are by the
\* minimum of 10 applied once more; and a resize or drag mousemove
\* delivered a second time at the same position emits the same shapes as
\* the first and leaves the collection as the first left it.
C23_NormalisationIdempotent ==
    [][/\ (Released /\ Len(shapes') = Len(shapes) + 1) =>
             LineBox(shapes'[Len(shapes')]) = shapes'[Len(shapes')]
       /\ \A p \in AllPoints :
             /\ (MouseMove(p) /\ resizing /\ selectedShape.type \in {"rectangle", "circle"}) =>
                   \A i \in 1..Len(emitted') :
                       LET r == emitted'[i].shape
                       IN  /\ (IF r.width < 10 THEN 10 ELSE r.width) = r.width
                           /\ (IF r.height < 10 THEN 10 ELSE r.height) = r.height
             /\ (MouseMove(p) /\ MovedBeforeTo(p)) =>
                   (emitted' = emitted /\ shapes' = shapes)]_vars

\* C23: a rectangle drawn from right to left is in the collection, and a
\* resize has just emitted it with the minimum width.
C23_Witness ==
    /\ gesture # NoGesture /\ resizing
    /\ emitted # <<>> /\ emitted[1].name = "shape-updated"
    /\ emitted[1].shape.type = "rectangle"
    /\ emitted[1].shape.width = 10
    /\ emitted[1].shape.startX > emitted[1].shape.endX

----------------------------------------------------------------------------
(* DatabaseService: the drawings store of IndexedDB *)

\* The object store is a function from the key (keyPath id) to the record.
\* A transaction on the store runs when the transactions created before it
\* have finished, unless both only read; the requests are therefore served
\* in the order of txs.  The clock that new Date() reads is nOps.

Names == {"plan", "house"}

Uuids == 1..MaxUuids

\* the collections handed to saveDrawing
Drawings ==
    { <<ShapeBetween("rectangle", Pt(0, 0), Pt(10, 10))>>,
      <<ShapeBetween("line", Pt(0, 0), Pt(60, 40)),
        SavedShape(2, "circle", Pt(10, 10), Pt(60, 40))>> }

\* JSON.stringify of one object: its properties as name-value pairs
JsonStringify(obj) == {<<k, obj[k]>> : k \in DOMAIN obj}

\* JSON.parse of the text of one object
JsonParse(text) ==
    [k \in {pair[1] : pair \in text} |->
        (CHOOSE pair \in text : pair[1] = k)[2]]

\* JSON.parse(JSON.stringify(shapes))
SerializableShapes(list) ==
    [i \in 1..Len(list) |-> JsonParse(JsonStringify(list[i]))]

\* index('name').get(name): the first record in key order whose name
\* matches, undefined when none does
IndexGet(st, name) ==
    LET ids == {id \in DOMAIN st : st[id].name = name}
    IN  IF ids = {} THEN NoRecord
        ELSE st[CHOOSE id \in ids : \A other \in ids : id <= other]

\* objectStore.get(id)
StoreGet(st, id) == IF id \in DOMAIN st THEN st[id] ELSE NoRecord

\* a drawing that always gets a new identifier
DrawingOfAlwaysNew(existingDrawing, name, list, now, uuid) ==
    [shapes |-> SerializableShapes(list), lastModified |-> now, name |-> name,
     id |-> uuid, created |-> now]

\* the drawing that getRequest.onsuccess of saveDrawing builds
DrawingOf(existingDrawing, name, list, now, uuid) ==
    IF existingDrawing # NoRecord
    THEN [shapes |-> SerializableShapes(list), lastModified |-> now,
          name |-> name, id |-> existingDrawing.id]
    ELSE [shapes |-> SerializableShapes(list), lastModified |-> now,
          name |-> name, id |-> uuid, created |-> now]

\* store.put(drawing), and store.add(drawing) of a key not in the store
StorePut(st, drawing) ==
    [id \in DOMAIN st \cup {drawing.id} |->
        IF id = drawing.id THEN drawing ELSE st[id]]

\* a delete that removes nothing
StoreDeleteNothing(st, id) == st

\* objectStore.delete(id)
StoreDelete(st, id) == [other \in DOMAIN st \ {id} |-> st[other]]

\* a cursor that stops after the first record
CursorFirstOnly(st, after) ==
    LET ids == {id \in DOMAIN st : id > after}
    IN  IF ids = {} THEN <<>>
        ELSE <<st[CHOOSE id \in ids : \A other \in ids : id <= other]>>

RECURSIVE CursorFrom(_, _)
\* openCursor and cursor.continue: the records with a key above `after`,
\* in key order
CursorFrom(st, after) ==
    LET ids == {id \in DOMAIN st : id > after}
        first == CHOOSE id \in ids : \A other \in ids : id <= other
    IN  IF ids = {} THEN <<>>
        ELSE <<st[first]>> \o CursorFrom(st, first)

\* a request is put at the end of txs and the clock moves on
Request(r) ==
    /\ txs' = Append(txs, r)
    /\ nOps' = nOps + 1

\* saveDrawing(name, shapes) is called: the get on the name index is
\* requested.  `limit` is the number of requests that may be waiting.
SaveCall(name, list, limit) ==
    /\ nOps < MaxOps /\ Len(txs) < limit
    /\ Request([op |-> "saveDrawing.get", name |-> name, shapes |-> list])
    /\ UNCHANGED <<canvasVars, query, result, store, uuids, manager, reply>>

\* getRequest.onsuccess of saveDrawing: the drawing is built and its put
\* or add is requested in a new readwrite transaction
SaveOnGet ==
    /\ nOps < MaxOps
    /\ txs # <<>> /\ Head(txs).op = "saveDrawing.get"
    /\ LET existingDrawing == IndexGet(store, Head(txs).name)
       IN  \E uuid \in (IF existingDrawing = NoRecord THEN Uuids \ uuids ELSE {0}) :
              /\ txs' = Append(Tail(txs),
                           [op |-> IF existingDrawing # NoRecord
                                   THEN "saveDrawing.put" ELSE "saveDrawing.add",
                            drawing |-> DrawingOf(existingDrawing, Head(txs).name,
                                                  Head(txs).shapes, nOps, uuid)])
              /\ uuids' = IF existingDrawing = NoRecord THEN uuids \cup {uuid}
                          ELSE uuids
    /\ nOps' = nOps + 1
    /\ UNCHANGED <<canvasVars, query, result, store, manager, reply>>

\* the put or add of saveDrawing is done: request.onsuccess resolves with
\* the drawing; an add of a key that is in the store fails and
\* request.onerror rejects
WriteServed ==
    /\ nOps < MaxOps
    /\ txs # <<>> /\ Head(txs).op \in {"saveDrawing.put", "saveDrawing.add"}
    /\ LET drawing == Head(txs).drawing
       IN  IF Head(txs).op = "saveDrawing.add" /\ drawing.id \in DOMAIN store
           THEN /\ store' = store
                /\ reply' = [op |-> "saveDrawing", rejected |-> TRUE]
           ELSE /\ store' = StorePut(store, drawing)
                /\ reply' = [op |-> "saveDrawing", rejected |-> FALSE,
                             value |-> drawing]
    /\ txs' = Tail(txs)
    /\ nOps' = nOps + 1
    /\ UNCHANGED <<query, result, uuids>>

\* the same, with nobody but the caller of the service waiting for it
SaveOnWrite == WriteServed /\ UNCHANGED <<canvasVars, manager>>

\* getDrawingById(id) is called
GetByIdCall(id, limit) ==
    /\ nOps < MaxOps /\ Len(txs) < limit
    /\ Request([op |-> "getDrawingById", id |-> id])
    /\ UNCHANGED <<canvasVars, query, result, store, uuids, manager, reply>>

\* request.onsuccess of getDrawingById
GetByIdDone ==
    /\ nOps < MaxOps
    /\ txs # <<>> /\ Head(txs).op = "getDrawingById"
    /\ reply' = [op |-> "getDrawingById", id |-> Head(txs).id,
                 value |-> StoreGet(store, Head(txs).id)]
    /\ txs' = Tail(txs)
    /\ nOps' = nOps + 1
    /\ UNCHANGED <<canvasVars, query, result, store, uuids, manager>>

\* getDrawingByName(name) is called
GetByNameCall(name, limit) ==
    /\ nOps < MaxOps /\ Len(txs) < limit
    /\ Request([op |-> "getDrawingByName", name |-> name])
    /\ UNCHANGED <<canvasVars, query, result, store, uuids, manager, reply>>

\* request.onsuccess of getDrawingByName
GetByNameDone ==
    /\ nOps < MaxOps
    /\ txs # <<>> /\ Head(txs).op = "getDrawingByName"
    /\ reply' = [op |-> "getDrawingByName", name |-> Head(txs).name,
                 value |-> IndexGet(store, Head(txs).name)]
    /\ txs' = Tail(txs)
    /\ nOps' = nOps + 1
    /\ UNCHANGED <<canvasVars, query, result, store, uuids, manager>>

\* getAllDrawings() is called
GetAllCall(limit) ==
    /\ nOps < MaxOps /\ Len(txs) < limit
    /\ Request([op |-> "getAllDrawings"])
    /\ UNCHANGED <<canvasVars, query, result, store, uuids, manager, reply>>

\* the cursor of getAllDrawings has run to its end
CursorServed ==
    /\ nOps < MaxOps
    /\ txs # <<>> /\ Head(txs).op = "getAllDrawings"
    /\ reply' = [op |-> "getAllDrawings", value |-> CursorFrom(store, 0)]
    /\ txs' = Tail(txs)
    /\ nOps' = nOps + 1
    /\ UNCHANGED <<query, result, store, uuids>>

GetAllDone == CursorServed /\ UNCHANGED <<canvasVars, manager>>

\* deleteDrawing(id) is called
DeleteCall(id, limit) ==
    /\ nOps < MaxOps /\ Len(txs) < limit
    /\ Request([op |-> "deleteDrawing", id |-> id])
    /\ UNCHANGED <<canvasVars, query, result, store, uuids, manager, reply>>

\* request.onsuccess of deleteDrawing
DeleteServed ==
    /\ nOps < MaxOps
    /\ txs # <<>> /\ Head(txs).op = "deleteDrawing"
    /\ store' = StoreDelete(store, Head(txs).id)
    /\ reply' = [op |-> "deleteDrawing", id |-> Head(txs).id, value |-> TRUE]
    /\ txs' = Tail(txs)
    /\ nOps' = nOps + 1
    /\ UNCHANGED <<query, result, uuids>>

DeleteDone == DeleteServed /\ UNCHANGED <<canvasVars, manager>>

\* The service with calls made while earlier ones are still under way
NextStore ==
    \/ \E name \in Names, list \in Drawings : SaveCall(name, list, MaxPending)
    \/ SaveOnGet
    \/ SaveOnWrite
    \/ \E id \in Uuids : GetByIdCall(id, MaxPending)
    \/ GetByIdDone
    \/ \E name \in Names : GetByNameCall(name, MaxPending)
    \/ GetByNameDone
    \/ GetAllCall(MaxPending)
    \/ GetAllDone
    \/ \E id \in Uuids : DeleteCall(id, MaxPending)
    \/ DeleteDone

SpecStore == Init /\ [][NextStore]_vars

\* The service with each call made when the one before it has resolved
NextStoreInTurn ==
    \/ \E name \in Names, list \in Drawings : SaveCall(name, list, 1)
    \/ SaveOnGet
    \/ SaveOnWrite
    \/ \E id \in Uuids : GetByIdCall(id, 1)
    \/ GetByIdDone
    \/ \E name \in Names : GetByNameCall(name, 1)
    \/ GetByNameDone
    \/ GetAllCall(1)
    \/ GetAllDone
    \/ \E id \in Uuids : DeleteCall(id, 1)
    \/ DeleteDone

SpecStoreInTurn == Init /\ [][NextStoreInTurn]_vars

----------------------------------------------------------------------------
(* DrawingManager.vue: the dialog that saves, lists, loads and deletes *)

\* A drawing name is the sequence of its characters.
Whitespace == {" "}

\* the name openManager('save') proposes: Building Plan and the date
DefaultName == <<"B", "P">>

\* what the user types into the name field
TypedNames == { <<>>, <<" ">>, <<" ", "a">>, <<"b">> }

\* trim that removes nothing
TrimNone(str) == str

RECURSIVE TrimStart(_)
TrimStart(str) ==
    IF str # <<>> /\ Head(str) \in Whitespace THEN TrimStart(Tail(str)) ELSE str

RECURSIVE TrimEnd(_)
TrimEnd(str) ==
    IF str # <<>> /\ str[Len(str)] \in Whitespace
    THEN TrimEnd(SubSeq(str, 1, Len(str) - 1)) ELSE str

\* String.prototype.trim
Trim(str) == TrimEnd(TrimStart(str))

\* one step of the sort: the drawing goes behind those that are not older
InsertDrawing(sorted, drawing) ==
    LET k == Cardinality({i \in 1..Len(sorted) :
                             sorted[i].lastModified >= drawing.lastModified})
    IN  SubSeq(sorted, 1, k) \o <<drawing>> \o SubSeq(sorted, k + 1, Len(sorted))

RECURSIVE SortDrawings(_)
\* drawings.sort((a, b) => new Date(b.lastModified) - new Date(a.lastModified))
SortDrawings(list) ==
    IF list = <<>> THEN <<>>
    ELSE InsertDrawing(SortDrawings(SubSeq(list, 1, Len(list) - 1)), list[Len(list)])

NameMissing == "Please enter a drawing name."
SaveFailed == "Failed to save drawing."

\* openManager(action), from the Save and Load buttons of the header,
\* which the overlay of the open dialog covers; for 'load' loadDrawings
\* is called and requests the list
OpenManager(action) ==
    /\ nOps < MaxOps
    /\ ~manager.showModal
    /\ IF action = "save"
       THEN /\ manager' = [manager EXCEPT !.currentAction = action, !.error = "",
                                          !.drawingName = DefaultName,
                                          !.showModal = TRUE]
            /\ nOps' = nOps + 1
            /\ UNCHANGED txs
       ELSE /\ Len(txs) < MaxPending
            /\ manager' = [manager EXCEPT !.currentAction = action, !.error = "",
                                          !.drawingName = <<>>,
                                          !.loadingData = TRUE,
                                          !.showModal = TRUE]
            /\ Request([op |-> "getAllDrawings"])
    /\ UNCHANGED <<canvasVars, query, result, store, uuids, reply>>

\* the name field of the save form (v-model)
TypeName(name) ==
    /\ nOps < MaxOps
    /\ manager.showModal /\ manager.currentAction = "save"
    /\ manager' = [manager EXCEPT !.drawingName = name]
    /\ nOps' = nOps + 1
    /\ UNCHANGED <<canvasVars, query, result, store, txs, uuids, reply>>

\* the Save button of the dialog: handleSaveConfirmed calls saveDrawing
\* with the host's collection
SaveConfirmed ==
    /\ nOps < MaxOps
    /\ manager.showModal /\ manager.currentAction = "save"
    /\ IF Trim(manager.drawingName) = <<>>
       THEN /\ manager' = [manager EXCEPT !.error = NameMissing,
                                          !.returned = "undefined"]
            /\ nOps' = nOps + 1
            /\ UNCHANGED txs
       ELSE /\ Len(txs) < MaxPending
            /\ manager' = [manager EXCEPT !.loadingData = TRUE]
            /\ Request([op |-> "saveDrawing.get", name |-> manager.drawingName,
                        shapes |-> shapes])
    /\ UNCHANGED <<canvasVars, query, result, store, uuids, reply>>

\* dbService.saveDrawing settles when its write has been served; the rest
\* of DrawingManager's saveDrawing runs
ManagerSaved ==
    /\ WriteServed
    /\ manager' = IF reply'.rejected
                  THEN [manager EXCEPT !.error = SaveFailed, !.returned = "false",
                                       !.loadingData = FALSE]
                  ELSE [manager EXCEPT !.showModal = FALSE, !.returned = "true",
                                       !.loadingData = FALSE]
    /\ UNCHANGED canvasVars

\* a request of a save fails (getRequest.onerror, request.onerror):
\* dbService.saveDrawing rejects
ManagerSaveFailed ==
    /\ nOps < MaxOps
    /\ txs # <<>>
    /\ Head(txs).op \in {"saveDrawing.get", "saveDrawing.put", "saveDrawing.add"}
    /\ txs' = Tail(txs)
    /\ reply' = [op |-> "saveDrawing", rejected |-> TRUE]
    /\ manager' = [manager EXCEPT !.error = SaveFailed, !.returned = "false",
                                  !.loadingData = FALSE]
    /\ nOps' = nOps + 1
    /\ UNCHANGED <<canvasVars, query, result, store, uuids>>

\* getAllDrawings resolves in loadDrawings: the list is sorted, the newest
\* first
ManagerListed ==
    /\ CursorServed
    /\ manager' = [manager EXCEPT !.drawings = SortDrawings(reply'.value),
                                  !.loadingData = FALSE]
    /\ UNCHANGED canvasVars

\* a drawing of the list is clicked: selectDrawing emits load-drawing with
\* its shapes, which the host handles, and closes the dialog
SelectDrawing(i) ==
    /\ nOps < MaxOps
    /\ manager.showModal /\ manager.currentAction = "load"
    /\ ~manager.loadingData
    /\ i \in 1..Len(manager.drawings)
    /\ LET s == handleLoadDrawing(St, manager.drawings[i].shapes)
       IN  /\ shapes' = s.shapes
           /\ selectedShape' = s.selectedShape
           /\ activeTool' = s.activeTool
           /\ activeColor' = s.activeColor
           /\ activeFillColor' = s.activeFillColor
    /\ manager' = [manager EXCEPT !.showModal = FALSE]
    /\ nOps' = nOps + 1
    /\ UNCHANGED <<showAnnotations, isDrawing, startPoint, endPoint, dragOffset,
                   resizing, resizeHandle, nextId, emitted, gesture, nEvents>>
    /\ UNCHANGED <<query, result, store, txs, uuids, reply>>

\* the close button and the Cancel button
CloseModal ==
    /\ nOps < MaxOps
    /\ manager.showModal
    /\ manager' = [manager EXCEPT !.showModal = FALSE]
    /\ nOps' = nOps + 1
    /\ UNCHANGED <<canvasVars, query, result, store, txs, uuids, reply>>

\* the Delete button of a drawing of the list, confirmed
ManagerDelete(i) ==
    /\ nOps < MaxOps /\ Len(txs) < MaxPending
    /\ manager.showModal /\ manager.currentAction = "load"
    /\ ~manager.loadingData
    /\ i \in 1..Len(manager.drawings)
    /\ manager' = [manager EXCEPT !.loadingData = TRUE]
    /\ Request([op |-> "deleteDrawing", id |-> manager.drawings[i].id])
    /\ UNCHANGED <<canvasVars, query, result, store, uuids, reply>>

\* dbService.deleteDrawing resolves in DrawingManager's deleteDrawing, which
\* calls loadDrawings to refresh the list
ManagerDeleted ==
    /\ nOps < MaxOps
    /\ txs # <<>> /\ Head(txs).op = "deleteDrawing"
    /\ store' = StoreDelete(store, Head(txs).id)
    /\ reply' = [op |-> "deleteDrawing", id |-> Head(txs).id, value |-> TRUE]
    /\ txs' = Append(Tail(txs), [op |-> "getAllDrawings"])
    /\ manager' = [manager EXCEPT !.loadingData = TRUE]
    /\ nOps' = nOps + 1
    /\ UNCHANGED <<canvasVars, query, result, uuids>>

\* a drawing saved in an earlier session
EarlierDrawing ==
    [id |-> 1, name |-> <<"b">>, created |-> 0, lastModified |-> 0,
     shapes |-> <<SavedShape(102, "line", Pt(0, 0), Pt(60, 40)),
                  SavedShape(103, "rectangle", Pt(10, 10), Pt(60, 40))>>]

\* The application with the dialog: a collection that is empty or has one
\* shape, which may be selected, and a store that is empty or has the
\* drawing of an earlier session
InitManager ==
    /\ activeTool = "select"
    /\ shapes \in {<<>>, <<SavedShape(101, "rectangle", Pt(0, 0), Pt(10, 10))>>}
    /\ selectedShape \in {NoShape} \cup {shapes[i] : i \in 1..Len(shapes)}
    /\ activeColor = "#333333"
    /\ activeFillColor = "transparent"
    /\ showAnnotations = TRUE
    /\ isDrawing = FALSE
    /\ startPoint = Pt(0, 0)
    /\ endPoint = Pt(0, 0)
    /\ dragOffset = Pt(0, 0)
    /\ resizing = FALSE
    /\ resizeHandle = ""
    /\ nextId = 1
    /\ emitted = <<>>
    /\ gesture = NoGesture
    /\ nEvents = 0
    /\ query = NoQuery
    /\ result = NoResult
    /\ \/ store = <<>> /\ uuids = {}
       \/ store = [id \in {1} |-> EarlierDrawing] /\ uuids = {1}
    /\ txs = <<>>
    /\ manager = ClosedManager
    /\ reply = NoReply
    /\ nOps = 0

NextManager ==
    \/ \E action \in {"save", "load"} : OpenManager(action)
    \/ \E name \in TypedNames : TypeName(name)
    \/ SaveConfirmed
    \/ SaveOnGet
    \/ ManagerSaved
    \/ ManagerSaveFailed
    \/ ManagerListed
    \/ \E i \in 1..MaxUuids : SelectDrawing(i)
    \/ CloseModal
    \/ \E i \in 1..MaxUuids : ManagerDelete(i)
    \/ ManagerDeleted

SpecManager == InitManager /\ [][NextManager]_vars

----------------------------------------------------------------------------
(* Vocabulary of the claims about the store *)

\* the keys of the records with this name
IdsNamed(st, name) == {id \in DOMAIN st : st[id].name = name}

\* every record but the one with this key is as it was
OthersUnchanged(id) ==
    \A other \in DOMAIN store \ {id} :
        other \in DOMAIN store' /\ store'[other] = store[other]

\* the last call that resolved was a saveDrawing that succeeded
SaveResolved == reply.op = "saveDrawing" /\ ~reply.rejected

----------------------------------------------------------------------------
(* C24 *)

\* C24: with each call made when the one before it has resolved, the
\* drawing a save builds has the name and the shapes it was called with;
\* when a record with that name is in the store, the write keeps that
\* record's id, replaces its shapes and leaves the number of records and
\* every other record as they were; when none is, the write adds exactly one
\* record, under an id that no record has and that was never handed out.
C24_SaveOverwritesOrCreates ==
    [][/\ SaveOnGet =>
             LET drawing == txs'[Len(txs')].drawing
             IN  /\ drawing.name = Head(txs).name
                 /\ drawing.shapes = Head(txs).shapes
                 /\ (IdsNamed(store, drawing.name) = {}) => drawing.id \notin uuids
       /\ SaveOnWrite =>
             LET drawing == Head(txs).drawing
                 same == IdsNamed(store, drawing.name)
             IN  /\ ~reply'.rejected /\ reply'.value = drawing
                 /\ OthersUnchanged(drawing.id)
                 /\ store'[drawing.id].shapes = drawing.shapes
                 /\ IF same # {}
                    THEN /\ same = {drawing.id}
                         /\ DOMAIN store' = DOMAIN store
                    ELSE /\ drawing.id \notin DOMAIN store
                         /\ DOMAIN store' = DOMAIN store \cup {drawing.id}
                         /\ Cardinality(DOMAIN store') = Cardinality(DOMAIN store) + 1]_vars

\* C24: a second save under the one name in the store has resolved: one
\* record, one id handed out, and the shapes of the second save.
C24_Witness ==
    /\ SaveResolved
    /\ Cardinality(uuids) = 1 /\ DOMAIN store = uuids
    /\ store[reply.value.id] = reply.value
    /\ reply.value.lastModified >= 4
    /\ Len(reply.value.shapes) = 2

----------------------------------------------------------------------------
(* C25 *)

\* the properties a record of a drawing is to have
RecordFields == {"id", "name", "shapes", "created", "lastModified"}

\* C25: every record in the store, and every record a saveDrawing resolved
\* with, has all of id, name, shapes, created and lastModified.
C25_RecordsComplete ==
    /\ \A id \in DOMAIN store : RecordFields \subseteq DOMAIN store[id]
    /\ SaveResolved => RecordFields \subseteq DOMAIN reply.value

----------------------------------------------------------------------------
(* C26 *)

\* the record has the id, the name and the shapes of the record r
SameDrawing(record, r) ==
    /\ record # NoRecord
    /\ record.id = r.id /\ record.name = r.name /\ record.shapes = r.shapes

\* C26: the drawing a save builds has the name and the shapes of the call;
\* and when the last call that resolved is a saveDrawing, with record r, a
\* getDrawingById(r.id) and a getDrawingByName of r's name that are served
\* next both resolve with a record that has r's id, name and shapes.
C26_RoundTrip ==
    [][/\ SaveOnGet =>
             /\ txs'[Len(txs')].drawing.name = Head(txs).name
             /\ txs'[Len(txs')].drawing.shapes = Head(txs).shapes
       /\ (GetByIdDone /\ SaveResolved /\ Head(txs).id = reply.value.id) =>
             SameDrawing(reply'.value, reply.value)
       /\ (GetByNameDone /\ SaveResolved /\ Head(txs).name = reply.value.name) =>
             SameDrawing(reply'.value, reply.value)]_vars

----------------------------------------------------------------------------
(* C27 *)

\* the last call that resolved was deleteDrawing
DeleteResolved == reply.op = "deleteDrawing"

\* C27: when deleteDrawing(id) resolves, it resolves with true, whether or
\* not a record had that id; no record with that id is in the store and
\* every other record is as it was; and a getDrawingById(id) or a
\* getAllDrawings served next resolves with undefined, or with a list
\* that has no record with that id.
C27_DeleteRemovesOne ==
    [][/\ DeleteDone =>
             /\ reply'.value = TRUE
             /\ DOMAIN store' = DOMAIN store \ {Head(txs).id}
             /\ OthersUnchanged(Head(txs).id)
       /\ (GetByIdDone /\ DeleteResolved /\ Head(txs).id = reply.id) =>
             reply'.value = NoRecord
       /\ (GetAllDone /\ DeleteResolved) =>
             \A i \in 1..Len(reply'.value) : reply'.value[i].id # reply.id]_vars

\* C27: one of two records has been deleted and the other is in the store.
C27_Witness ==
    /\ DeleteResolved /\ reply.value = TRUE
    /\ reply.id \in uuids
    /\ store # <<>> /\ DOMAIN store = uuids \ {reply.id}

----------------------------------------------------------------------------
(* C28 *)

\* C28: the list getAllDrawings resolves with has every record of the store
\* once and nothing else: it is as long as the store has records, each
\* record of the store is at exactly one place of it, and each of its
\* entries is the record the store has under the entry's id.
C28_GetAllListsStore ==
    [][GetAllDone =>
          /\ store' = store
          /\ Len(reply'.value) = Cardinality(DOMAIN store)
          /\ \A id \in DOMAIN store :
                Cardinality({i \in 1..Len(reply'.value) : reply'.value[i] = store[id]}) = 1
          /\ \A i \in 1..Len(reply'.value) :
                /\ reply'.value[i].id \in DOMAIN store
                /\ store[reply'.value[i].id] = reply'.value[i]]_vars

\* C28: two drawings saved under two names are in the store, and
\* getAllDrawings has resolved with the two of them.
C28_Witness ==
    /\ reply.op = "getAllDrawings" /\ Len(reply.value) = 2
    /\ reply.value[1].name # reply.value[2].name
    /\ Cardinality(DOMAIN store) = 2

----------------------------------------------------------------------------
(* C30 *)

\* C30: no two records of the store have the same name, whatever the order
\* in which the lookups and the writes of overlapping saves are served.
C30_NamesUnique ==
    \A id \in DOMAIN store : IdsNamed(store, store[id].name) = {id}

----------------------------------------------------------------------------
(* C29 *)

\* C29: a frame drawn with annotations hidden has no annotation of any
\* shape; a frame drawn with annotations shown has, right after the body of
\* each shape, the annotation of that shape, and no other annotation; and
\* the toolbar's annotations button changes neither the collection nor the
\* selection.
C29_AnnotationsFollowFlag ==
    [][/\ ~showAnnotations' =>
             \A i \in 1..Len(Frame') : Frame'[i].op # "annotation"
       /\ showAnnotations' =>
             /\ \A i \in 1..Len(Frame') :
                   Frame'[i].op = "body" =>
                      /\ i < Len(Frame')
                      /\ Frame'[i + 1] = [op |-> "annotation", id |-> Frame'[i].id]
             /\ Cardinality({i \in 1..Len(Frame') : Frame'[i].op = "annotation"})
                   = Len(shapes')
       /\ ToggleAnnotations =>
             (shapes' = shapes /\ selectedShape' = selectedShape)]_vars

\* C29: annotations are switched off with a shape in the collection that
\* is selected, and no gesture is under way.
C29_Witness ==
    /\ ~showAnnotations
    /\ shapes # <<>> /\ selectedShape # NoShape
    /\ emitted = <<>> /\ gesture = NoGesture

----------------------------------------------------------------------------
(* C31 *)

\* C31: no step makes the collection longer by more than one shape, and
\* the canvas emits shape-added at most once in a DOM event, although each
\* of its handlers runs twice; the collection grows only at a mouseup or
\* a mouseleave; and a mouseup or mouseleave that comes when the gesture
\* has already been ended by one leaves the collection as it is.
C31_GestureAddsAtMostOne ==
    [][/\ Len(shapes') <= Len(shapes) + 1
       /\ Cardinality({i \in 1..Len(emitted') : emitted'[i].name = "shape-added"}) <= 1
       /\ Len(shapes') > Len(shapes) => (Released /\ gesture # NoGesture)
       /\ (Released /\ gesture = NoGesture) => shapes' = shapes]_vars

\* C31: the second drawing gesture has just ended and has added the second
\* shape, emitted once.
C31_Witness ==
    /\ gesture = NoGesture /\ Len(shapes) = 2
    /\ Len(emitted) = 1 /\ emitted[1].name = "shape-added"
    /\ emitted[1].shape = shapes[2]

----------------------------------------------------------------------------
(* C32 *)

\* the collection with the field of colour of the entry that has the
\* selected id set, and nothing else changed
Recoloured(field, color) ==
    [i \in 1..Len(shapes) |->
        IF shapes[i].id = selectedShape.id
        THEN [shapes[i] EXCEPT ![field] = color] ELSE shapes[i]]

\* C32: a change of the stroke or fill colour while a shape is selected
\* leaves every entry of the collection as it was immediately before,
\* except for the colour, or fill colour, of the entry with the selected
\* id: its x, y, width, height and end points are those the collection had.
C32_ColourChangeKeepsGeometry ==
    [][/\ \A color \in Colors :
             (ColorChange(color) /\ selectedShape # NoShape) =>
                 shapes' = Recoloured("color", color)
       /\ \A color \in FillColors :
             (FillColorChange(color) /\ selectedShape # NoShape) =>
                 shapes' = Recoloured("fillColor", color)]_vars

----------------------------------------------------------------------------
(* C33 *)

\* the selected shape as the collection has it, NoShape when it has none
\* with the selected id
CurrentSelected == EntryOf(shapes, selectedShape)

\* the shape a resize by this handle to p makes of the shape
Resized(shape, handle, p) ==
    IF shape.type = "line" THEN ResizeLine(shape, handle, p.x, p.y)
    ELSE ResizeBox(shape, handle, p.x, p.y)

\* C33: with the select tool and a shape selected that is in the
\* collection, a mousedown on a handle of that shape as the collection has
\* it, which is where the handles are drawn, starts a resize by that
\* handle; and when a mousedown has started a resize, the shape that the
\* next mousemove emits, wherever the pointer goes, is the resize of the
\* shape as the collection has it.
C33_ResizeFromCurrentGeometry ==
    [][\A p \in AllPoints :
          /\ (/\ MouseDown(p) /\ activeTool = "select"
              /\ CurrentSelected # NoShape
              /\ getResizeHandle(p.x, p.y, CurrentSelected) # "") =>
                 /\ resizing'
                 /\ resizeHandle' = getResizeHandle(p.x, p.y, CurrentSelected)
          /\ (MouseDown(p) /\ resizing' /\ CurrentSelected' # NoShape) =>
                 \A q \in AllPoints :
                     LET s == handleMouseMove(St', q)
                     IN  /\ s.emitted # <<>>
                         /\ s.emitted[1].shape = Resized(CurrentSelected', resizeHandle', q)]_vars

----------------------------------------------------------------------------
(* C34 *)

\* the corner of the shape opposite to the handle
OppositeCorner(shape, handle) ==
    CASE handle = "top-left" -> Pt(shape.x + shape.width, shape.y + shape.height)
      [] handle = "top-right" -> Pt(shape.x, shape.y + shape.height)
      [] handle = "bottom-left" -> Pt(shape.x + shape.width, shape.y)
      [] OTHER -> Pt(shape.x, shape.y)

\* C34: while a rectangle or a circle is resized by its top-left, top-right
\* or bottom-left handle, every shape a mousemove emits has the corner
\* opposite to the handle where the shape being resized has it, wherever
\* the pointer is, also where the width or the height is raised to 10.
C34_OppositeCornerFixed ==
    [][\A p \in AllPoints :
          (/\ MouseMove(p) /\ resizing
           /\ selectedShape.type \in {"rectangle", "circle"}
           /\ resizeHandle \in {"top-left", "top-right", "bottom-left"}) =>
              \A i \in 1..Len(emitted') :
                  OppositeCorner(emitted'[i].shape, resizeHandle)
                     = OppositeCorner(selectedShape, resizeHandle)]_vars

----------------------------------------------------------------------------
(* C35 *)

\* C35: in every reachable state in which a shape is selected, the
\* collection has a shape with the selected id.
C35_SelectedIsInCollection ==
    selectedShape # NoShape =>
        \E i \in 1..Len(shapes) : shapes[i].id = selectedShape.id

\* C35: a drawing was loaded, one of its two shapes was selected and
\* deleted, and the other one is selected now.
C35_Witness ==
    /\ Len(shapes) = 1 /\ shapes[1].id = 103
    /\ selectedShape # NoShape /\ selectedShape.id = 103

----------------------------------------------------------------------------
(* C36 *)

\* C36: every tool change leaves no shape selected; the canvas emits
\* shape-selected with a shape only while the select tool is active; and in
\* every state a step leads to, a selected shape goes with the select tool
\* being the active one.
C36_SelectionNeedsSelectTool ==
    [][/\ \A tool \in Tools : ToolChange(tool) => selectedShape' = NoShape
       /\ \A i \in 1..Len(emitted') :
             (emitted'[i].name = "shape-selected" /\ emitted'[i].shape # NoShape) =>
                 (activeTool = "select" /\ activeTool' = "select")
       /\ selectedShape' # NoShape => activeTool' = "select"]_vars

\* C36: a shape drawn with the line tool has just been selected with the
\* select tool.
C36_Witness ==
    /\ activeTool = "select" /\ selectedShape # NoShape
    /\ selectedShape.type = "line"
    /\ emitted # <<>> /\ emitted[1].name = "shape-selected"
    /\ emitted[1].shape = selectedShape

----------------------------------------------------------------------------
(* C37 *)

\* the collection without its k-th shape
Without(coll, k) == SubSeq(coll, 1, k - 1) \o SubSeq(coll, k + 1, Len(coll))

\* C37: the delete button, with a shape selected, leaves the collection
\* without the one shape that has the selected id, the other shapes in
\* their order, and leaves nothing selected; and handleDeleteShape with
\* nothing selected leaves everything as it is.
C37_DeleteRemovesSelected ==
    [][/\ DeleteShape =>
             /\ selectedShape' = NoShape
             /\ \E k \in 1..Len(shapes) :
                   /\ shapes[k].id = selectedShape.id
                   /\ shapes' = Without(shapes, k)
             /\ \A i \in 1..Len(shapes') : shapes'[i].id # selectedShape.id
       /\ selectedShape = NoShape => handleDeleteShape(St) = St]_vars

\* C37: of the two shapes of a loaded drawing the first has been deleted,
\* and nothing is selected.
C37_Witness ==
    /\ Len(shapes) = 1 /\ shapes[1].id = 103
    /\ selectedShape = NoShape /\ emitted = <<>>

----------------------------------------------------------------------------
(* C38 *)

\* the name has no character that is not whitespace
Blank(name) == \A i \in 1..Len(name) : name[i] \in Whitespace

\* C38: a Save confirmed with a name that is empty or only whitespace
\* requests nothing of the store and leaves the store as it is, sets the
\* error message, leaves the dialog open and returns undefined, and no
\* record of the store has such a name; when a save that reached the store
\* settles, the loading flag is false, and saveDrawing has returned true
\* if the write was done and false if a request failed.
C38_SaveAttemptOutcome ==
    [][/\ (SaveConfirmed /\ Blank(manager.drawingName)) =>
             /\ txs' = txs /\ store' = store
             /\ manager'.error = NameMissing
             /\ manager'.showModal
             /\ manager'.returned = "undefined"
       /\ \A id \in DOMAIN store' : ~Blank(store'[id].name)
       /\ ManagerSaved =>
             /\ ~manager'.loadingData
             /\ manager'.returned = (IF reply'.rejected THEN "false" ELSE "true")
             /\ ~reply'.rejected => store'[reply'.value.id] = reply'.value
       /\ ManagerSaveFailed =>
             /\ ~manager'.loadingData
             /\ manager'.returned = "false"
             /\ store' = store]_vars

\* C38: Save was confirmed with a name of one space: the dialog is open
\* with the message, nothing is requested and the store is empty.
C38_Witness ==
    /\ manager.showModal /\ manager.currentAction = "save"
    /\ manager.drawingName = <<" ">>
    /\ manager.error = NameMissing /\ manager.returned = "undefined"
    /\ txs = <<>> /\ store = <<>>

----------------------------------------------------------------------------
(* C39 *)

\* C39: when a drawing of the list is chosen, the collection becomes the
\* shapes of that drawing, in their order, whatever it was before; no shape
\* is selected; and the active tool, the active stroke colour and the
\* active fill colour are as they were.
C39_LoadReplacesCollection ==
    [][\A i \in 1..MaxUuids :
          SelectDrawing(i) =>
             /\ shapes' = manager.drawings[i].shapes
             /\ selectedShape' = NoShape
             /\ activeTool' = activeTool
             /\ activeColor' = activeColor
             /\ activeFillColor' = activeFillColor]_vars

\* C39: the drawing of the earlier session has been loaded and the dialog
\* is closed.
C39_Witness ==
    /\ ~manager.showModal /\ manager.currentAction = "load"
    /\ manager.drawings # <<>>
    /\ shapes = EarlierDrawing.shapes
    /\ selectedShape = NoShape

====
